---------------------------- MODULE Spec2Model ----------------------------
(***************************************************************************)
(* Model of the infinite-rs loading pipeline: the module container         *)
(* (ModuleFile / ModuleFileEntry), block assembly with the Kraken wrapper,  *)
(* the tag-file parser (TagHeader / TagFile) and the structure resolver     *)
(* (read_metadata / FieldBlock::load_blocks).                               *)
(*                                                                         *)
(* Streams are sequences of cells.  One cell stands for one fixed-width    *)
(* scalar of the on-disk layout (a read_u32, read_i32, read_u64, ...       *)
(* consumes exactly one cell), and for one byte of payload data.  Stream   *)
(* positions are 0-based as in the source; TLA+ sequences are 1-based, so   *)
(* position p of a stream s is s[p + 1].                                    *)
(***************************************************************************)
EXTENDS Integers, Sequences, FiniteSets, TLC

VARIABLES
    files,        \* ModuleFile::files, one record per ModuleFileEntry
    blocks,       \* ModuleFile::blocks, the module-wide block table
    module,       \* ModuleFile: header.version, header.hd1_delta, hd1_file.is_some()
    reader_pos,   \* stream positions of module_file and hd1_file
    last,         \* observation: the last call, its result and its I/O trace
    target,       \* the caller's structure handed to read_metadata / load_blocks
    hdr,          \* header-validation runs: the stream read and what came of it
    rs,           \* resolver runs: the inputs of one load_blocks call
    run           \* runs of one function on its own: its inputs and what it returned

vars == <<files, blocks, module, reader_pos, last, target, hdr, rs, run>>

-----------------------------------------------------------------------------
(* Generic helpers                                                         *)

Min(a, b) == IF a < b THEN a ELSE b

Max(a, b) == IF a > b THEN a ELSE b

Range(s) == {s[i] : i \in 1..Len(s)}

\* s[from .. to) with 0-based positions, as a Rust slice.
Slice(s, from, to) == [i \in 1..(to - from) |-> s[from + i]]

Zeros(n) == [i \in 1..n |-> 0]

\* The smallest index of s satisfying Test, or 0: Iterator::find / position.
FirstIndex(s, Test(_)) ==
    IF \E i \in 1..Len(s) : Test(s[i])
    THEN CHOOSE i \in 1..Len(s) : Test(s[i]) /\ \A j \in 1..(i - 1) : ~Test(s[j])
    ELSE 0

-----------------------------------------------------------------------------
(* Tag header: src/infinite-rs/src/tag/header.rs                           *)

TAG_HEADER_MAGIC == 1752392565      \* 0x6873_6375, "ucsh"

HEADER_VERSION == 27

\* The fields of TagHeader in the order TagHeader::read reads them.
TagHeaderFields ==
    << "magic", "version", "root_struct_guid", "checksum", "dependency_count",
       "datablock_count", "tagstruct_count", "data_reference_count",
       "tag_reference_count", "string_table_size", "zoneset_size", "unknown",
       "header_size", "data_size", "resource_size", "actual_resource_size",
       "header_alignment", "tag_alignment", "resource_alignment",
       "actual_resource_alignment", "is_resource" >>

FieldPos(name) == CHOOSE i \in 1..Len(TagHeaderFields) : TagHeaderFields[i] = name

\* TagHeader::read with the checks in another order: every field is read
\* before magic and version are looked at.
TagHeader_read_validate_last(buf) ==
    LET n == Len(TagHeaderFields)
        got == Min(Len(buf), n)
        log == [i \in 1..got |-> TagHeaderFields[i]]
    IN  IF Len(buf) < n THEN [res |-> "ReadError", log |-> log, pos |-> got]
        ELSE IF buf[1] # TAG_HEADER_MAGIC
             THEN [res |-> "IncorrectMagic", log |-> log, pos |-> n]
        ELSE IF buf[2] # HEADER_VERSION
             THEN [res |-> "IncorrectVersion", log |-> log, pos |-> n]
        ELSE [res |-> "Ok", log |-> log, pos |-> n]

\* TagHeader::read on a stream positioned at 0.  log lists the fields taken
\* from the stream; a read past the end is an UnexpectedEof ReadError.
TagHeader_read(buf) ==
    LET n == Len(TagHeaderFields)
        got == Min(Len(buf), n)
    IN  IF Len(buf) < 1
        THEN [res |-> "ReadError", log |-> << >>, pos |-> 0]
        ELSE IF buf[1] # TAG_HEADER_MAGIC
        THEN [res |-> "IncorrectMagic", log |-> <<"magic">>, pos |-> 1]
        ELSE IF Len(buf) < 2
        THEN [res |-> "ReadError", log |-> <<"magic">>, pos |-> 1]
        ELSE IF buf[2] # HEADER_VERSION
        THEN [res |-> "IncorrectVersion", log |-> <<"magic", "version">>, pos |-> 2]
        ELSE IF Len(buf) < n
        THEN [res |-> "ReadError",
              log |-> [i \in 1..got |-> TagHeaderFields[i]], pos |-> got]
        ELSE [res |-> "Ok", log |-> TagHeaderFields, pos |-> n]

HeaderField(buf, name) == buf[FieldPos(name)]

-----------------------------------------------------------------------------
(* Tag file: src/infinite-rs/src/tag/loader.rs and the record readers      *)

TagDependencyCells == 5       \* tag_group, name_offset, asset_id, tag_id, parent_index

TagDataBlockCells == 4        \* entry_size, padding, section_type, offset

TagStructCells == 6           \* guid, struct_type, unknown, target_index, field_block, field_offset

TagDataReferenceCells == 5    \* parent_struct_index, unknown, target_index, field_block, field_offset

TagReferenceCells == 4        \* field_block, field_offset, name_offset, dependency_index

\* TagSectionType: Header, TagData, ResourceData, ActualResource.
TagSectionTypes == 0..3

\* TagStructType: MainStruct, TagBlock, Resource, Custom, Literal.
MainStruct == 0

TagBlock == 1

TagStructTypes == 0..4

\* BufReaderExt::read_enumerable: count records of width cells each, read
\* one after the other from pos; the first record that does not fit ends
\* the read with an UnexpectedEof.
read_enumerable(buf, pos, count, width, name) ==
    LET fit == IF Len(buf) <= pos THEN 0 ELSE (Len(buf) - pos) \div width
        done == Min(count, fit)
    IN  [ok   |-> count <= fit,
         pos  |-> IF count <= fit THEN pos + count * width ELSE Len(buf),
         rows |-> [k \in 1..done |-> Slice(buf, pos + (k - 1) * width, pos + k * width)],
         log  |-> [k \in 1..done |-> name]]

\* Readable for TagDataBlock.
TagDataBlock_read(row) ==
    [entry_size |-> row[1], section_type |-> row[3], offset |-> row[4]]

\* Readable for TagStruct.
TagStruct_read(row) ==
    [struct_type |-> row[2], target_index |-> row[4],
     field_block |-> row[5], field_offset |-> row[6]]

NoTag ==
    [present |-> FALSE, header_size |-> 0,
     datablock_definitions |-> << >>, struct_definitions |-> << >>]

\* The five tables of a tag file in the order TagFile::read reads them:
\* the header field holding the count, the record width, the record name.
TagTables ==
    << [count |-> "dependency_count", width |-> TagDependencyCells, name |-> "dependency"],
       [count |-> "datablock_count", width |-> TagDataBlockCells, name |-> "datablock"],
       [count |-> "tagstruct_count", width |-> TagStructCells, name |-> "tagstruct"],
       [count |-> "data_reference_count", width |-> TagDataReferenceCells,
        name |-> "data_reference"],
       [count |-> "tag_reference_count", width |-> TagReferenceCells,
        name |-> "tag_reference"] >>

\* A record whose enum field does not convert ends the table read:
\* TagSectionType::try_from(..).map_err(..)? and
\* TagStructType::try_from(..).unwrap().
RowError(name, row) ==
    IF name = "datablock" /\ row[3] \notin TagSectionTypes THEN "InvalidTagSection"
    ELSE IF name = "tagstruct" /\ row[2] \notin TagStructTypes THEN "Panic"
    ELSE "Ok"

\* The state of TagFile::read after one more table, r being what
\* read_enumerable made of it.
TableRead(acc, name, r) ==
    LET bad == { k \in 1..Len(r.rows) : RowError(name, r.rows[k]) # "Ok" }
    IN  [res  |-> IF bad # {} THEN RowError(name, r.rows[CHOOSE k \in bad : TRUE])
                  ELSE IF r.ok THEN "Ok" ELSE "ReadError",
         pos  |-> r.pos,
         log  |-> acc.log \o r.log,
         rows |-> [acc.rows EXCEPT ![name] = r.rows]]

RECURSIVE ReadTables(_, _, _)
ReadTables(buf, k, acc) ==
    IF k > Len(TagTables) \/ acc.res # "Ok" THEN acc
    ELSE ReadTables(buf, k + 1,
                    TableRead(acc, TagTables[k].name,
                              read_enumerable(buf, acc.pos,
                                              HeaderField(buf, TagTables[k].count),
                                              TagTables[k].width, TagTables[k].name)))

TableNames == { TagTables[k].name : k \in 1..Len(TagTables) }

\* TagFile::read without its last seek: the cursor stays behind the tables.
TagFile_finish_in_place(buf, t) ==
    [res |-> t.res, log |-> t.log, pos |-> t.pos,
     tag |-> IF t.res # "Ok" THEN NoTag
             ELSE [present |-> TRUE,
                   header_size |-> HeaderField(buf, "header_size"),
                   datablock_definitions |->
                       [k \in 1..Len(t.rows["datablock"]) |->
                           TagDataBlock_read(t.rows["datablock"][k])],
                   struct_definitions |->
                       [k \in 1..Len(t.rows["tagstruct"]) |->
                           TagStruct_read(t.rows["tagstruct"][k])]]]

\* What TagFile::read leaves behind once the tables are read (t): on
\* success the cursor is moved to header_size.
TagFile_finish(buf, t) ==
    IF t.res # "Ok"
    THEN [res |-> t.res, log |-> t.log, pos |-> t.pos, tag |-> NoTag]
    ELSE [res |-> "Ok", log |-> t.log, pos |-> HeaderField(buf, "header_size"),
          tag |-> [present |-> TRUE,
                   header_size |-> HeaderField(buf, "header_size"),
                   datablock_definitions |->
                       [k \in 1..Len(t.rows["datablock"]) |->
                           TagDataBlock_read(t.rows["datablock"][k])],
                   struct_definitions |->
                       [k \in 1..Len(t.rows["tagstruct"]) |->
                           TagStruct_read(t.rows["tagstruct"][k])]]]

\* TagFile::read after the header read h.
TagFile_tables(buf, h) ==
    IF h.res # "Ok"
    THEN [res |-> h.res, log |-> h.log, pos |-> h.pos, tag |-> NoTag]
    ELSE TagFile_finish(buf, ReadTables(buf, 1,
             [res |-> "Ok", pos |-> h.pos, log |-> h.log,
              rows |-> [n \in TableNames |-> << >>]]))

\* TagFile::read on the entry's data stream (positioned at 0), as read_tag
\* calls it.  On success pos is the stream position the call leaves behind.
\* The names a pre-Season 3 module keeps in a string table are looked up by
\* read_null_terminated_string, which the sources do not hold: the tag
\* files of the model have no dependency and no tag reference, so that no
\* name is looked up.
TagFile_read(buf) == TagFile_tables(buf, TagHeader_read(buf))

-----------------------------------------------------------------------------
(* Kraken wrapper: src/infinite-rs/src/module/kraken.rs                    *)

HACK_PAD == 8      \* vec![0; size + 8]

\* What the native library may report for a destination of size cells: a
\* failure code, nothing, one cell short, the size asked for, one more, the
\* whole padded buffer, and more than the padded buffer.
KrakenReportKinds == {"error", "none", "short", "exact", "long", "pad", "beyond"}

\* Kraken_Decompress, the external library.  Its return value is not in the
\* program's hands: kind picks one of the values it can report.  The cells
\* it writes stand in for the codec: a stored stream, one leading marker
\* cell followed by the data, of which at most size cells are written.
Kraken_Decompress(input, size, kind) ==
    LET body == IF Len(input) = 0 THEN << >> ELSE Tail(input)
    IN  [result  |-> CASE kind = "error"  -> -1
                       [] kind = "none"   -> 0
                       [] kind = "short"  -> Max(size - 1, 0)
                       [] kind = "exact"  -> size
                       [] kind = "long"   -> size + 1
                       [] kind = "pad"    -> size + HACK_PAD
                       [] kind = "beyond" -> size + HACK_PAD + 1,
         written |-> [i \in 1..size |-> IF i <= Len(body) THEN body[i] ELSE 0]]

\* decompress with a size check added: a report other than size is refused.
decompress_exact(input, size, kind) ==
    LET k == Kraken_Decompress(input, size, kind)
    IN  IF k.result < 0 THEN [res |-> "DecompressionFailed", out |-> << >>]
        ELSE IF k.result # size THEN [res |-> "BufferSizeOverflow", out |-> << >>]
        ELSE [res |-> "Ok", out |-> k.written]

\* decompress(compressed_buffer, output_buffer, size): out is what
\* *output_buffer holds afterwards.
decompress(input, size, kind) ==
    LET k == Kraken_Decompress(input, size, kind)
        buffer == k.written \o Zeros(HACK_PAD)
    IN  IF k.result < 0 THEN [res |-> "DecompressionFailed", out |-> << >>]
        ELSE IF k.result > Len(buffer) THEN [res |-> "BufferSizeOverflow", out |-> << >>]
        ELSE [res |-> "Ok", out |-> SubSeq(buffer, 1, k.result)]

-----------------------------------------------------------------------------
(* The files on disk                                                       *)

\* The shapes (TagStructure impls) handed to read_metadata: the root
\* structure holds a leaf field and a FieldBlock of elements; an element
\* holds one leaf field and is wider than it.
RootSize == 4           \* #[data(size(..))] of the root shape

RootLeafOffset == 0     \* #[data(offset(..))] of its leaf field

RootBlockOffset == 1    \* #[data(offset(..))] of its FieldBlock field

ElemSize == 2           \* #[data(size(..))] of the element shape

ElemLeafOffset == 0     \* #[data(offset(..))] of its leaf field

FieldBlockCells == 3    \* FieldBlock::read: type_info, unknown, size

\* A tag file image: header, datablock table, struct table, then the data
\* (root structure, then the elements of its block field).
TagImage(magic, version, nblocks, structs, header_size, data) ==
    << magic, version, 0, 0, 0, nblocks, Len(structs) \div TagStructCells, 0, 0, 0, 0, 0,
       header_size, Len(data), 0, 0, 0, 0, 0, 0, 0 >>
    \o SubSeq(<< RootSize, 0, 1, 0,   3 * ElemSize, 0, 1, RootSize >>,
              1, nblocks * TagDataBlockCells)
    \o structs
    \o data

RootStructRow == << 0, MainStruct, 0, 0, -1, 0 >>

BlockStructRow == << 0, TagBlock, 0, 1, 0, RootBlockOffset >>

GoodData == << 70, 0, 0, 3,   71, 81, 72, 82, 73, 83 >>

GoodHeaderSize ==
    Len(TagHeaderFields) + 2 * TagDataBlockCells + 2 * TagStructCells

GoodTag ==
    TagImage(TAG_HEADER_MAGIC, HEADER_VERSION, 2, RootStructRow \o BlockStructRow,
             GoodHeaderSize, GoodData)

BadMagicTag == << 0, HEADER_VERSION >>

BadVersionTag == << TAG_HEADER_MAGIC, HEADER_VERSION + 1 >>

RawPayload == << 11, 12, 13 >>

KRAKEN_MARKER == 140    \* 0x8C, the first byte of a Kraken stream

\* The stored form of a buffer, as Kraken_Decompress above reads it.
Stored(buf) == << KRAKEN_MARKER >> \o buf

SplitAt == Len(TagHeaderFields)

\* The data region of the module file: segments one after the other.
ModuleSegments ==
    << GoodTag,                                   \* 1: a tag, raw
       Stored(GoodTag),                           \* 2: the same tag, compressed
       SubSeq(GoodTag, 1, SplitAt),               \* 3: its header, raw, then ...
       Stored(SubSeq(GoodTag, SplitAt + 1, Len(GoodTag))),  \* 4: ... the rest, compressed
       RawPayload,                                \* 5: a resource payload
       BadMagicTag,                               \* 6
       BadVersionTag >>                           \* 7

RECURSIVE Concat(_)
Concat(ss) == IF Len(ss) = 0 THEN << >> ELSE Head(ss) \o Concat(Tail(ss))

ModuleData == Concat(ModuleSegments)

\* Offset of segment k inside the data region.
SegmentOffset(k) == Len(Concat(SubSeq(ModuleSegments, 1, k - 1)))

Hd1Data == << 21, 22, 23 >>

PAGE_SIZE == 4096           \* 0x1000

\* An alignment that leaves an aligned position where it is.
AlignedOffset_round_up(stream_position) ==
    ((stream_position + PAGE_SIZE - 1) \div PAGE_SIZE) * PAGE_SIZE

\* // Align to 0x?????000
AlignedOffset(stream_position) == (stream_position \div PAGE_SIZE + 1) * PAGE_SIZE

\* ModuleFile::file_data_offset of a module whose tables end in the first page.
file_data_offset == AlignedOffset(0)

Hd1Base == 8                \* where the cells of the hd1 file start

\* The files behind the two readers: "module" is module_file, "hd1" is
\* hd1_file.  The area before the data reads as 0.
FileLen(reader) ==
    IF reader = "module" THEN file_data_offset + Len(ModuleData) ELSE Hd1Base + Len(Hd1Data)

CellAt(reader, p) ==
    IF reader = "module"
    THEN IF p < file_data_offset THEN 0 ELSE ModuleData[p - file_data_offset + 1]
    ELSE IF p < Hd1Base THEN 0 ELSE Hd1Data[p - Hd1Base + 1]

\* Read::read_exact of n cells at position pos: the cells, or UnexpectedEof.
CanRead(reader, pos, n) == pos + n <= FileLen(reader)

FileSlice(reader, pos, n) == [i \in 1..n |-> CellAt(reader, pos + i - 1)]

Ev(op, arg) == [op |-> op, arg |-> arg]

-----------------------------------------------------------------------------
(* Block assembly: src/infinite-rs/src/module/file.rs                      *)

\* The value every assembly step passes on: the result so far, the buffer,
\* the reader position, the I/O done and the decompress calls made.
Step(res, data, pos, io, kraken) ==
    [res |-> res, data |-> data, pos |-> pos, io |-> io, kraken |-> kraken]

\* data[from .. from + len] = cells, as copy_from_slice into a sub-slice.
Overwrite(data, from, cells) ==
    [i \in 1..Len(data) |->
        IF i > from /\ i <= from + Len(cells) THEN cells[i - from] ELSE data[i]]

\* A Rust slice data[from .. to] of a buffer is in bounds.
InBounds(data, from, to) == 0 <= from /\ from <= to /\ to <= Len(data)

\* read_uncompressed_block that ignores decompressed_offset: the cells
\* land at the start of the buffer.
read_uncompressed_block_at_start(reader, block, c) ==
    IF ~InBounds(c.data, 0, block.compressed_size)
    THEN Step("Panic", c.data, c.pos, c.io, c.kraken)
    ELSE IF ~CanRead(reader, c.pos, block.compressed_size)
    THEN Step("ReadError", c.data, FileLen(reader),
              Append(c.io, Ev("read", block.compressed_size)), c.kraken)
    ELSE Step("Ok",
              Overwrite(c.data, 0, FileSlice(reader, c.pos, block.compressed_size)),
              c.pos + block.compressed_size,
              Append(c.io, Ev("read", block.compressed_size)), c.kraken)

\* read_uncompressed_block: the destination slice is taken first, then
\* filled by read_exact from the reader's current position.
read_uncompressed_block(reader, block, c) ==
    IF ~InBounds(c.data, block.decompressed_offset,
                 block.decompressed_offset + block.compressed_size)
    THEN Step("Panic", c.data, c.pos, c.io, c.kraken)
    ELSE IF ~CanRead(reader, c.pos, block.compressed_size)
    THEN Step("ReadError", c.data, FileLen(reader),
              Append(c.io, Ev("read", block.compressed_size)), c.kraken)
    ELSE Step("Ok",
              Overwrite(c.data, block.decompressed_offset,
                        FileSlice(reader, c.pos, block.compressed_size)),
              c.pos + block.compressed_size,
              Append(c.io, Ev("read", block.compressed_size)), c.kraken)

\* The end of read_compressed_block: c is the state after the read, d the
\* outcome of decompress.  copy_from_slice panics unless source and
\* destination have the same length.
CopyDecompressed(block, c, d) ==
    IF d.res # "Ok" THEN [c EXCEPT !.res = d.res]
    ELSE IF ~InBounds(c.data, block.decompressed_offset,
                      block.decompressed_offset + block.decompressed_size)
            \/ Len(d.out) # block.decompressed_size
    THEN [c EXCEPT !.res = "Panic"]
    ELSE [c EXCEPT !.data = Overwrite(c.data, block.decompressed_offset, d.out)]

\* The decompress call of read_compressed_block on the cells read.
DecompressBlock(block, c, input, d) ==
    CopyDecompressed(block,
        [c EXCEPT !.kraken = Append(@, [input |-> input, size |-> block.decompressed_size,
                                        res |-> d.res, out |-> d.out])],
        d)

\* read_compressed_block: read compressed_size cells, decompress them to
\* decompressed_size cells, copy the outcome to its place in the buffer.
read_compressed_block(reader, block, c, kind) ==
    IF block.compressed_size < 0 THEN [c EXCEPT !.res = "Panic"]
    ELSE IF ~CanRead(reader, c.pos, block.compressed_size)
    THEN Step("ReadError", c.data, FileLen(reader),
              Append(c.io, Ev("read", block.compressed_size)), c.kraken)
    ELSE IF block.decompressed_size < 0
    THEN Step("Panic", c.data, c.pos + block.compressed_size,
              Append(c.io, Ev("read", block.compressed_size)), c.kraken)
    ELSE DecompressBlock(block,
             Step("Ok", c.data, c.pos + block.compressed_size,
                  Append(c.io, Ev("read", block.compressed_size)), c.kraken),
             FileSlice(reader, c.pos, block.compressed_size),
             decompress(FileSlice(reader, c.pos, block.compressed_size),
                        block.decompressed_size, kind))

\* One pass of the loop of read_multiple_blocks, on table entry k (0-based).
ReadBlock(reader, block, k, c, kind) ==
    IF block.is_compressed
    THEN read_compressed_block(reader, block, [c EXCEPT !.io = Append(@, Ev("block", k))], kind)
    ELSE read_uncompressed_block(reader, block, [c EXCEPT !.io = Append(@, Ev("block", k))])

\* The loop of read_multiple_blocks over table[k .. to), in table order.
RECURSIVE ReadBlocks(_, _, _, _, _, _)
ReadBlocks(reader, table, k, to, c, kinds) ==
    IF k >= to \/ c.res # "Ok" THEN c
    ELSE ReadBlocks(reader, table, k + 1, to,
                    ReadBlock(reader, table[k + 1], k, c, kinds[k + 1]), kinds)

\* The seek of read_multiple_blocks.
Sought(c, file_offset) ==
    [c EXCEPT !.pos = file_offset, !.io = Append(@, Ev("seek", file_offset))]

\* read_multiple_blocks without the sign check on block_index.
read_multiple_blocks_unchecked(reader, entry, table, file_offset, c, kinds) ==
    IF entry.block_index < 0 \/ entry.block_index + entry.block_count > Len(table)
    THEN [Sought(c, file_offset) EXCEPT !.res = "Panic",
                                        !.io = Append(@, Ev("block", entry.block_index))]
    ELSE ReadBlocks(reader, table, entry.block_index,
                    entry.block_index + entry.block_count, Sought(c, file_offset), kinds)

\* Two blocks of the range from..to of the table have destinations that
\* share a cell.
Overlapping(table, from, to) ==
    \E j, k \in from..to :
        /\ j < k
        /\ table[j].decompressed_offset < table[k].decompressed_offset
               + (IF table[k].is_compressed THEN table[k].decompressed_size
                                            ELSE table[k].compressed_size)
        /\ table[k].decompressed_offset < table[j].decompressed_offset
               + (IF table[j].is_compressed THEN table[j].decompressed_size
                                            ELSE table[j].compressed_size)

\* read_multiple_blocks with a check of the layout: an entry whose blocks
\* overlap is refused.
read_multiple_blocks_checked_layout(reader, entry, table, file_offset, c, kinds) ==
    IF entry.block_index < 0 THEN [c EXCEPT !.res = "NegativeBlockIndex"]
    ELSE IF entry.block_index + entry.block_count > Len(table)
    THEN [Sought(c, file_offset) EXCEPT !.res = "Panic"]
    ELSE IF Overlapping(table, entry.block_index + 1, entry.block_index + entry.block_count)
    THEN [Sought(c, file_offset) EXCEPT !.res = "ReadError"]
    ELSE ReadBlocks(reader, table, entry.block_index,
                    entry.block_index + entry.block_count, Sought(c, file_offset), kinds)

\* ModuleFileEntry::read_multiple_blocks.
read_multiple_blocks(reader, entry, table, file_offset, c, kinds) ==
    IF entry.block_index < 0 THEN [c EXCEPT !.res = "NegativeBlockIndex"]
    ELSE IF entry.block_index + entry.block_count > Len(table)
    THEN [Sought(c, file_offset) EXCEPT !.res = "Panic"]
    ELSE ReadBlocks(reader, table, entry.block_index,
                    entry.block_index + entry.block_count, Sought(c, file_offset), kinds)

\* The decompress branch of read_single_block: *data becomes what
\* decompress leaves in it.
DecompressSingle(entry, c, input, d) ==
    [c EXCEPT !.res = d.res,
              !.data = IF d.res = "Ok" THEN d.out ELSE @,
              !.kraken = Append(@, [input |-> input, size |-> entry.total_uncompressed_size,
                                    res |-> d.res, out |-> d.out])]

\* The state of read_single_block after its seek and read_exact.
SingleRead(reader, entry, file_offset, c) ==
    IF CanRead(reader, file_offset, entry.total_compressed_size)
    THEN Step("Ok", c.data, file_offset + entry.total_compressed_size,
              c.io \o << Ev("seek", file_offset), Ev("read", entry.total_compressed_size) >>,
              c.kraken)
    ELSE Step("ReadError", c.data, FileLen(reader),
              c.io \o << Ev("seek", file_offset), Ev("read", entry.total_compressed_size) >>,
              c.kraken)

\* read_single_block that decompresses whatever the sizes are.
read_single_block_always_decompress(reader, entry, file_offset, c, kind) ==
    IF ~CanRead(reader, file_offset, entry.total_compressed_size)
    THEN SingleRead(reader, entry, file_offset, c)
    ELSE DecompressSingle(entry, SingleRead(reader, entry, file_offset, c),
             FileSlice(reader, file_offset, entry.total_compressed_size),
             decompress(FileSlice(reader, file_offset, entry.total_compressed_size),
                        entry.total_uncompressed_size, kind))

\* read_single_block.
read_single_block(reader, entry, file_offset, c, kind) ==
    IF ~CanRead(reader, file_offset, entry.total_compressed_size)
    THEN SingleRead(reader, entry, file_offset, c)
    ELSE IF entry.total_compressed_size = entry.total_uncompressed_size
    THEN [SingleRead(reader, entry, file_offset, c) EXCEPT
              !.data = FileSlice(reader, file_offset, entry.total_compressed_size)]
    ELSE DecompressSingle(entry, SingleRead(reader, entry, file_offset, c),
             FileSlice(reader, file_offset, entry.total_compressed_size),
             decompress(FileSlice(reader, file_offset, entry.total_compressed_size),
                        entry.total_uncompressed_size, kind))

-----------------------------------------------------------------------------
(* Lazy entry load: ModuleFileEntry::read_tag                              *)

NoStream == [present |-> FALSE, buf |-> << >>, pos |-> 0]

\* What a call on one entry hands back to the model: the entry afterwards,
\* the result, the reader position and the trace of the call.  stage is
\* how far the call got: "guard" (returned at the is_loaded test),
\* "assemble" (left while assembling the buffer), "parse" (left in
\* TagFile::read) or "done".
Outcome(entry, res, stage, c) ==
    [entry |-> entry, res |-> res, stage |-> stage, pos |-> c.pos, io |-> c.io,
     kraken |-> c.kraken]

\* self.data_stream = Some(BufReader::new(Cursor::new(data))), read up to p.
Streamed(entry, buf, p) ==
    [entry EXCEPT !.data_stream = [present |-> TRUE, buf |-> buf, pos |-> p]]

\* The end of read_tag for a tag: tf is what TagFile::read made of the
\* stream.  A failed read leaves the stream in place and the entry unloaded.
LoadTagInfo(entry, c, tf) ==
    IF tf.res # "Ok"
    THEN Outcome(Streamed(entry, c.data, tf.pos), tf.res, "parse", c)
    ELSE Outcome([Streamed(entry, c.data, tf.pos) EXCEPT !.tag_info = tf.tag,
                                                         !.is_loaded = TRUE],
                 "Ok", "done", c)

\* read_tag once the buffer is assembled (c): stream, tag info, is_loaded.
LoadStream(entry, c) ==
    IF c.res # "Ok" THEN Outcome(entry, c.res, "assemble", c)
    ELSE IF entry.tag_id = -1
    THEN Outcome([Streamed(entry, c.data, 0) EXCEPT !.is_loaded = TRUE], "Ok", "done", c)
    ELSE LoadTagInfo(entry, c, TagFile_read(c.data))

\* vec![0u8; total_uncompressed_size] and reader.rewind().
Rewound(entry) ==
    Step("Ok", Zeros(entry.total_uncompressed_size), 0, << Ev("rewind", 0) >>, << >>)

\* The part of read_tag that follows the is_loaded guard.
LoadEntry(entry, reader, data_offset, table, kinds) ==
    IF entry.block_count # 0
    THEN LoadStream(entry, read_multiple_blocks(reader, entry, table,
                               data_offset + entry.data_offset, Rewound(entry), kinds))
    ELSE LoadStream(entry, read_single_block(reader, entry,
                               data_offset + entry.data_offset, Rewound(entry), kinds[1]))

\* read_tag without its guard: every call loads again.
read_tag_unguarded(entry, reader, data_offset, table, pos, kinds) ==
    LoadEntry(entry, reader, data_offset, table, kinds)

\* read_tag without reader.rewind(): the seeks count from where the reader
\* stands.
read_tag_no_rewind(entry, reader, data_offset, table, pos, kinds) ==
    IF entry.is_loaded
    THEN Outcome(entry, "Ok", "guard", Step("Ok", << >>, pos, << >>, << >>))
    ELSE LoadEntry(entry, reader, data_offset + pos, table, kinds)

\* ModuleFileEntry::read_tag(reader, data_offset, blocks); pos is where the
\* reader stands when the call is made.
read_tag(entry, reader, data_offset, table, pos, kinds) ==
    IF entry.is_loaded
    THEN Outcome(entry, "Ok", "guard", Step("Ok", << >>, pos, << >>, << >>))
    ELSE LoadEntry(entry, reader, data_offset, table, kinds)

-----------------------------------------------------------------------------
(* ModuleFile::read_tag and read_tag_from_id:                              *)
(* src/infinite-rs/src/module/loader.rs                                    *)

Season3 == 53      \* ModuleVersion::Season3

None == [some |-> FALSE, v |-> 0]

Some(v) == [some |-> TRUE, v |-> v]

\* ModuleFile::read_tag returning Ok(None) without a read.
NotRead(file) ==
    [entry |-> file, res |-> "Ok", stage |-> "none", value |-> None, reader |-> "module",
     pos |-> reader_pos.module, io |-> << >>, kraken |-> << >>]

\* ModuleFile::read_tag with module_file not open: neither branch reads, and
\* the call ends in Ok(Some(file.tag_id)).
Skipped(file) ==
    [entry |-> file, res |-> "Ok", stage |-> "none", value |-> Some(file.tag_id),
     reader |-> "module", pos |-> reader_pos.module, io |-> << >>, kraken |-> << >>]

\* ModuleFile::read_tag after file.read_tag(..)? on reader r gave o.
Returned(o, r) ==
    [entry |-> o.entry, res |-> o.res, stage |-> o.stage,
     value |-> IF o.res = "Ok" THEN Some(o.entry.tag_id) ELSE None,
     reader |-> r, pos |-> o.pos, io |-> o.io, kraken |-> o.kraken]

WORD == 1048576    \* stands for 2^64: file_data_offset and hd1_delta are u64

\* The offset ModuleFile::read_tag hands to a load from hd1_file, in a build
\* whose subtraction wraps around.  (ModuleVersion has no value after
\* Season3.)
Hd1Offset(version, data_offset, hd1_delta) ==
    IF version <= Season3 THEN hd1_delta
    ELSE (data_offset - hd1_delta + WORD) % WORD

\* ModuleFile::read_tag whose entries seek from where the earlier reads left
\* the file handle.
ModuleFile_read_tag_from_position(index, kinds) ==
    IF "INVALID" \in files[index + 1].data_offset_flags THEN NotRead(files[index + 1])
    ELSE IF "USE_HD1" \in files[index + 1].data_offset_flags
    THEN IF module.hd1_open
         THEN Returned(read_tag(files[index + 1], "hd1",
                                Hd1Offset(module.version, file_data_offset,
                                          module.hd1_delta) + reader_pos.hd1,
                                blocks, reader_pos.hd1, kinds), "hd1")
         ELSE NotRead(files[index + 1])
    ELSE IF module.module_open
    THEN Returned(read_tag(files[index + 1], "module",
                           file_data_offset + reader_pos.module, blocks,
                           reader_pos.module, kinds), "module")
    ELSE Skipped(files[index + 1])

\* ModuleFile::read_tag(index).  value is the Option the call returns.
ModuleFile_read_tag(index, kinds) ==
    IF "INVALID" \in files[index + 1].data_offset_flags THEN NotRead(files[index + 1])
    ELSE IF "USE_HD1" \in files[index + 1].data_offset_flags
    THEN IF module.hd1_open
         THEN Returned(read_tag(files[index + 1], "hd1",
                                Hd1Offset(module.version, file_data_offset,
                                          module.hd1_delta),
                                blocks, reader_pos.hd1, kinds), "hd1")
         ELSE NotRead(files[index + 1])
    ELSE IF module.module_open
    THEN Returned(read_tag(files[index + 1], "module", file_data_offset, blocks,
                           reader_pos.module, kinds), "module")
    ELSE Skipped(files[index + 1])

\* read_tag_from_id that looks the id up from the end of the table.
PositionOfId_last(global_id) ==
    IF \E k \in 1..Len(files) : files[k].tag_id = global_id
    THEN (CHOOSE k \in 1..Len(files) :
             /\ files[k].tag_id = global_id
             /\ \A j \in (k + 1)..Len(files) : files[j].tag_id # global_id) - 1
    ELSE -1

\* The index read_tag_from_id looks up: files.iter().position(..), 0-based,
\* or -1 when no entry has the id.
PositionOfId(global_id) ==
    FirstIndex(files, LAMBDA f : f.tag_id = global_id) - 1

-----------------------------------------------------------------------------
(* ModuleHeader::read (header.rs), the table records (file.rs, block.rs)   *)
(* and ModuleFile::read (loader.rs)                                        *)

MODULE_HEADER_MAGIC == 1684565869      \* 0x6468_6F6D, "mohd"

Flight1 == 48

Release == 51

CampaignFlight == 52

\* The values ModuleVersion::try_from_primitive accepts.
ModuleVersions == {Flight1, Release, CampaignFlight, Season3}

\* The fields of ModuleHeader in the order ModuleHeader::read reads them.
ModuleHeaderFields ==
    << "magic", "version", "module_id", "file_count", "manifest0_count",
       "manifest1_count", "manifest2_count", "resource_index", "strings_size",
       "resource_count", "block_count", "build_version", "hd1_delta", "data_size" >>

ModuleFieldPos(name) ==
    CHOOSE i \in 1..Len(ModuleHeaderFields) : ModuleHeaderFields[i] = name

ModuleField(buf, name) == buf[ModuleFieldPos(name)]

\* ModuleHeader::read with the checks moved to the end: every field is
\* read before magic and version are looked at.
ModuleHeader_read_validate_last(buf) ==
    IF Len(buf) < Len(ModuleHeaderFields)
    THEN [res |-> "ReadError", pos |-> Len(buf),
          log |-> [i \in 1..Len(buf) |-> ModuleHeaderFields[i]]]
    ELSE IF buf[1] # MODULE_HEADER_MAGIC
    THEN [res |-> "IncorrectMagic", log |-> ModuleHeaderFields,
          pos |-> Len(ModuleHeaderFields)]
    ELSE IF buf[2] \notin ModuleVersions
    THEN [res |-> "IncorrectVersion", log |-> ModuleHeaderFields,
          pos |-> Len(ModuleHeaderFields)]
    ELSE [res |-> "Ok", log |-> ModuleHeaderFields,
          pos |-> Len(ModuleHeaderFields) + IF buf[2] >= Release THEN 1 ELSE 0]

\* ModuleHeader::read on a stream positioned at 0.  log lists the fields
\* taken from the stream.  From Release on, the 8 bytes after the header
\* (one cell) are skipped by seek_relative, which reads nothing.
ModuleHeader_read(buf) ==
    IF Len(buf) < 1 THEN [res |-> "ReadError", log |-> << >>, pos |-> 0]
    ELSE IF buf[1] # MODULE_HEADER_MAGIC
    THEN [res |-> "IncorrectMagic", log |-> << "magic" >>, pos |-> 1]
    ELSE IF Len(buf) < 2 THEN [res |-> "ReadError", log |-> << "magic" >>, pos |-> 1]
    ELSE IF buf[2] \notin ModuleVersions
    THEN [res |-> "IncorrectVersion", log |-> << "magic", "version" >>, pos |-> 2]
    ELSE IF Len(buf) < Len(ModuleHeaderFields)
    THEN [res |-> "ReadError", pos |-> Len(buf),
          log |-> [i \in 1..Len(buf) |-> ModuleHeaderFields[i]]]
    ELSE [res |-> "Ok", log |-> ModuleHeaderFields,
          pos |-> Len(ModuleHeaderFields) + IF buf[2] >= Release THEN 1 ELSE 0]

FileEntryReads == 22     \* the scalars ModuleFileEntry::read takes from the stream

FileEntryCells == 23     \* ... and the padding it skips with seek_relative(4)

ModuleBlockCells == 5    \* the scalars ModuleBlockEntry::read takes from the stream

OFFSET_RADIX == 65536    \* stands for 2^48: data_offset keeps the low 48 bits of its u64

\* DataOffsetType::from_bits_truncate.
DataOffsetType(bits) ==
    (IF bits % 2 = 1 THEN {"USE_HD1"} ELSE {})
    \cup (IF (bits \div 2) % 2 = 1 THEN {"USE_HD2"} ELSE {})

\* Enumerable::read for ModuleFileEntry: the fields the model keeps.  The
\* flags are taken from data_offset after it has been masked.
ModuleFileEntry_read(row) ==
    [block_count |-> row[3], block_index |-> row[4],
     data_offset |-> row[7] % OFFSET_RADIX,
     data_offset_flags |-> DataOffsetType((row[7] % OFFSET_RADIX) \div OFFSET_RADIX),
     total_compressed_size |-> row[8], total_uncompressed_size |-> row[9],
     tag_id |-> row[10], uncompressed_header_size |-> row[11],
     data_stream |-> NoStream, tag_info |-> NoTag, is_loaded |-> FALSE]

\* ModuleBlockEntry::read.
ModuleBlockEntry_read(row) ==
    [compressed_offset |-> row[1], compressed_size |-> row[2],
     decompressed_offset |-> row[3], decompressed_size |-> row[4],
     is_compressed |-> row[5] # 0]

\* The state ModuleFile::read passes from step to step: the result so far,
\* the reader position, the records taken from the stream, and the fields
\* of self written so far.
ModuleRun(res, pos, log, pushed, table, hd1) ==
    [res |-> res, pos |-> pos, log |-> log, files |-> pushed, blocks |-> table,
     hd1_open |-> hd1, resource_indices |-> hdr.resource_indices]

\* The loop of ModuleFile::read over the file entries: entry k is read (its
\* scalars must be there) and pushed.
RECURSIVE ReadFileEntries(_, _, _, _)
ReadFileEntries(buf, k, n, m) ==
    IF k >= n THEN m
    ELSE IF m.pos + FileEntryReads > Len(buf)
    THEN [m EXCEPT !.res = "ReadError", !.pos = Max(m.pos, Len(buf)),
                   !.log = IF m.pos < Len(buf) THEN Append(@, "file_entry") ELSE @]
    ELSE ReadFileEntries(buf, k + 1, n,
             [m EXCEPT !.pos = @ + FileEntryCells,
                       !.log = Append(@, "file_entry"),
                       !.files = Append(@, ModuleFileEntry_read(
                                     Slice(buf, m.pos, m.pos + FileEntryReads)))])

\* The resource indices of ModuleFile::read: resource_count u32 reads.
ReadResourceIndices(buf, m, count) ==
    IF m.res # "Ok" THEN m
    ELSE IF count > 0 /\ m.pos + count > Len(buf)
    THEN [m EXCEPT !.res = "ReadError", !.pos = Max(m.pos, Len(buf)),
                   !.log = @ \o [k \in 1..Max(0, Len(buf) - m.pos) |-> "resource_index"]]
    ELSE [m EXCEPT !.pos = @ + count,
                   !.log = @ \o [k \in 1..count |-> "resource_index"],
                   !.resource_indices = Slice(buf, m.pos, m.pos + count)]

\* self.blocks = reader.read_enumerable::<ModuleBlockEntry>(block_count)?
BlocksRead(m, r) ==
    IF ~r.ok
    THEN [m EXCEPT !.res = "ReadError", !.pos = r.pos, !.log = @ \o r.log]
    ELSE [m EXCEPT !.pos = r.pos, !.log = @ \o r.log,
                   !.blocks = [k \in 1..Len(r.rows) |-> ModuleBlockEntry_read(r.rows[k])]]

ReadBlockTable(buf, m, count) ==
    IF m.res # "Ok" THEN m
    ELSE BlocksRead(m, read_enumerable(buf, m.pos, count, ModuleBlockCells, "block_entry"))

\* ModuleFile::read after the header read h: open_hd1, the file entries,
\* the resource indices, the block table.  The paths of a Season 3 module
\* are computed from the entries and read nothing.
ModuleFile_tables(buf, hd1_exists, old_files, old_blocks, h) ==
    IF h.res # "Ok" THEN ModuleRun(h.res, h.pos, h.log, old_files, old_blocks, module.hd1_open)
    ELSE ReadBlockTable(buf,
             ReadResourceIndices(buf,
                 ReadFileEntries(buf, 0, ModuleField(buf, "file_count"),
                     ModuleRun("Ok", h.pos, h.log, old_files, old_blocks,
                               ModuleField(buf, "hd1_delta") # 0 /\ hd1_exists)),
                 ModuleField(buf, "resource_count")),
             ModuleField(buf, "block_count"))

\* ModuleFile::read on the file buf, self.files and self.blocks being
\* old_files and old_blocks when it is called.
ModuleFile_read(buf, hd1_exists, old_files, old_blocks) ==
    ModuleFile_tables(buf, hd1_exists, old_files, old_blocks, ModuleHeader_read(buf))

-----------------------------------------------------------------------------
(* Structure resolution: FieldBlock::load_blocks (common_types.rs), the     *)
(* derived TagStructure::read (infinite-rs-derive) and read_metadata        *)

\* The caller's structure of the root shape: T::default().  touched says
\* whether any field of it, or of its element list, has been written.
DefaultTarget == [leaf |-> 0, size |-> 0, elements |-> << >>, touched |-> FALSE]

\* What a resolver step hands back: result, the structure, the datablock
\* indices used on the way, and the offsets in block_buffer the elements
\* were read at.
Resolved(res, t, used, at) == [res |-> res, target |-> t, used |-> used, at |-> at]

\* The loop of load_blocks over elements i .. n - 1.  bbuf is block_buffer,
\* pos the position of block_reader.  One pass is the derived read of the
\* element shape at pos (seek to pos + offset, read the leaf, seek to
\* pos + size), then block_reader.seek(block_size * i).
RECURSIVE ReadElements(_, _, _, _, _, _)
ReadElements(bbuf, i, n, pos, elems, at) ==
    IF i >= n THEN [res |-> "Ok", elements |-> elems, at |-> at]
    ELSE IF pos + ElemLeafOffset >= Len(bbuf)
    THEN [res |-> "ReadError", elements |-> elems, at |-> at]
    ELSE ReadElements(bbuf, i + 1, n, ElemSize * i,
                      Append(elems, bbuf[pos + ElemLeafOffset + 1]), Append(at, pos))

\* The end of load_blocks: e is what the loop made of block_buffer.
BlockElements(t, bs, e) ==
    Resolved(e.res,
             [t EXCEPT !.elements = e.elements, !.touched = @ \/ Len(e.elements) > 0],
             << bs.target_index >>, e.at)

\* load_blocks on the datablock b: block_buffer is filled by seek and
\* read_exact, then the elements are read from it.
LoadFromBlock(t, buf, bs, b) ==
    IF b.offset + b.entry_size > Len(buf)
    THEN Resolved("ReadError", t, << bs.target_index >>, << >>)
    ELSE BlockElements(t, bs,
             ReadElements(Slice(buf, b.offset, b.offset + b.entry_size),
                          0, t.size, 0, t.elements, << >>))

\* load_blocks with block_struct found: blocks[target_index as usize].
LoadFromStruct(t, buf, bs, dblocks) ==
    IF bs.target_index < 0 \/ bs.target_index >= Len(dblocks)
    THEN Resolved("Panic", t, << bs.target_index >>, << >>)
    ELSE LoadFromBlock(t, buf, bs, dblocks[bs.target_index + 1])

\* load_blocks once structs.iter().find(..) has given position k (0: None).
LoadFound(t, k, buf, structs, dblocks) ==
    IF t.size = 0 \/ k = 0 THEN Resolved("Ok", t, << >>, << >>)
    ELSE LoadFromStruct(t, buf, structs[k], dblocks)

\* load_blocks with the target_index != -1 test left out of the lookup.
load_blocks_any_target(t, current_block, collection_offset, buf, structs, dblocks) ==
    LoadFound(t,
              FirstIndex(structs, LAMBDA s :
                  s.field_block = current_block /\ s.field_offset = collection_offset),
              buf, structs, dblocks)

\* FieldBlock::load_blocks(current_block, collection_offset, reader, structs,
\* blocks) on the block field of t, whose declared count is t.size; buf is
\* what the reader reads.
load_blocks(t, current_block, collection_offset, buf, structs, dblocks) ==
    LoadFound(t,
              FirstIndex(structs, LAMBDA s :
                  /\ s.field_block = current_block
                  /\ s.field_offset = collection_offset
                  /\ s.target_index # -1),
              buf, structs, dblocks)

\* The derived TagStructure::read of the root shape on a reader at 0: the
\* leaf field, then FieldBlock::read (type_info, unknown, size).
RootRead(t, buf) ==
    IF RootLeafOffset >= Len(buf) THEN [res |-> "ReadError", target |-> t]
    ELSE IF RootBlockOffset + FieldBlockCells > Len(buf)
    THEN [res |-> "ReadError",
          target |-> [t EXCEPT !.leaf = buf[RootLeafOffset + 1], !.touched = TRUE]]
    ELSE [res |-> "Ok",
          target |-> [t EXCEPT !.leaf = buf[RootLeafOffset + 1],
                               !.size = buf[RootBlockOffset + FieldBlockCells],
                               !.touched = TRUE]]

\* What read_metadata hands back: the entry and the caller's structure
\* afterwards, the result and the datablock indices used.
Metadata(entry, res, t, used) == [entry |-> entry, res |-> res, target |-> t, used |-> used]

\* read_metadata after struct_type.load_field_blocks(..) gave l.
FieldsLoaded(entry, main, l) ==
    Metadata(entry, l.res, l.target, << main.target_index >> \o l.used)

\* read_metadata after struct_type.read(..) gave r: load_field_blocks with
\* the main struct's target_index as the source index and base 0.
RootLoaded(entry, tbuf, main, r) ==
    IF r.res # "Ok" THEN Metadata(entry, r.res, r.target, << main.target_index >>)
    ELSE FieldsLoaded(entry, main,
             load_blocks(r.target, main.target_index, 0 + RootBlockOffset, tbuf,
                         entry.tag_info.struct_definitions,
                         entry.tag_info.datablock_definitions))

\* read_metadata on full_tag_buffer (tbuf).
ReadRoot(entry, tbuf, t, main) == RootLoaded(entry, tbuf, main, RootRead(t, tbuf))

\* read_metadata with the main block found: &full_tag[main_block.offset..].
FromMainBlock(entry, full_tag, t, main, mblock) ==
    IF mblock.offset > Len(full_tag)
    THEN Metadata(entry, "Panic", t, << main.target_index >>)
    ELSE ReadRoot(entry, Slice(full_tag, mblock.offset, Len(full_tag)), t, main)

\* read_metadata with the main struct found:
\* datablock_definitions[main_struct.target_index as usize].
FromMainStruct(entry, full_tag, t, main) ==
    IF main.target_index < 0
       \/ main.target_index >= Len(entry.tag_info.datablock_definitions)
    THEN Metadata(entry, "Panic", t, << main.target_index >>)
    ELSE FromMainBlock(entry, full_tag, t, main,
                       entry.tag_info.datablock_definitions[main.target_index + 1])

\* read_metadata once struct_definitions.iter().find(..) has given position
\* m (0: None).
MainFound(entry, full_tag, t, m) ==
    IF m = 0 THEN Metadata(entry, "MainStructNotFound", t, << >>)
    ELSE FromMainStruct(entry, full_tag, t, entry.tag_info.struct_definitions[m])

\* read_metadata that takes the last struct of kind MainStruct.
FromFullTag_last_main(entry, full_tag, t) ==
    IF ~entry.tag_info.present THEN Metadata(entry, "NoTagInfo", t, << >>)
    ELSE MainFound(entry, full_tag, t,
                   IF \E k \in 1..Len(entry.tag_info.struct_definitions) :
                          entry.tag_info.struct_definitions[k].struct_type = MainStruct
                   THEN CHOOSE k \in 1..Len(entry.tag_info.struct_definitions) :
                          /\ entry.tag_info.struct_definitions[k].struct_type = MainStruct
                          /\ \A j \in (k + 1)..Len(entry.tag_info.struct_definitions) :
                                entry.tag_info.struct_definitions[j].struct_type # MainStruct
                   ELSE 0)

\* read_metadata after read_to_end: entry has its stream drained, full_tag
\* holds what was left of it.
FromFullTag(entry, full_tag, t) ==
    IF ~entry.tag_info.present THEN Metadata(entry, "NoTagInfo", t, << >>)
    ELSE MainFound(entry, full_tag, t,
                   FirstIndex(entry.tag_info.struct_definitions,
                              LAMBDA s : s.struct_type = MainStruct))

\* read_to_end on the entry's stream: the cells from the cursor on.
Remaining(ds) ==
    IF ds.pos >= Len(ds.buf) THEN << >> ELSE Slice(ds.buf, ds.pos, Len(ds.buf))

\* ModuleFileEntry::read_metadata(struct_type), struct_type being t.  The
\* capacity of full_tag is computed first: the subtraction overflows, or
\* the allocation it asks for is refused, when the header is the larger.
read_metadata(entry, t) ==
    IF entry.uncompressed_header_size > entry.total_uncompressed_size
    THEN Metadata(entry, "Panic", t, << >>)
    ELSE IF ~entry.data_stream.present THEN Metadata(entry, "NotLoaded", t, << >>)
    ELSE FromFullTag([entry EXCEPT !.data_stream.pos = Max(@, Len(entry.data_stream.buf))],
                     Remaining(entry.data_stream), t)

-----------------------------------------------------------------------------
(* The module after ModuleFile::read: the states the lifecycle starts from  *)

MaxBlockCount == 2      \* block_count of an entry ranges over 0..MaxBlockCount

MaxBlockIndex == 1      \* block_index of an entry ranges over -1..MaxBlockIndex

TagIdA == 7             \* the tag id of an entry that is a tag

TagIdB == 9             \* an id no entry has

Entry(block_count, block_index, layout, tag_id, header_size, flags) ==
    [block_count |-> block_count, block_index |-> block_index,
     data_offset |-> layout[1], data_offset_flags |-> flags,
     total_compressed_size |-> layout[2], total_uncompressed_size |-> layout[3],
     tag_id |-> tag_id, uncompressed_header_size |-> header_size,
     data_stream |-> NoStream, tag_info |-> NoTag, is_loaded |-> FALSE]

\* <<data_offset, total_compressed_size, total_uncompressed_size>> of the
\* entries stored as one segment.
SingleLayouts ==
    { << SegmentOffset(1), Len(GoodTag), Len(GoodTag) >>,          \* a tag, raw
      << SegmentOffset(2), Len(GoodTag) + 1, Len(GoodTag) >>,      \* a tag, compressed
      << SegmentOffset(5), Len(RawPayload), Len(RawPayload) >>,    \* a payload, raw
      << SegmentOffset(5), Len(RawPayload), Len(RawPayload) - 1 >>,\* a payload, compressed
      << SegmentOffset(6), Len(BadMagicTag), Len(BadMagicTag) >>,
      << SegmentOffset(7), Len(BadVersionTag), Len(BadVersionTag) >>,
      << Len(ModuleData) - 1, Len(RawPayload), Len(RawPayload) >>, \* runs past the end
      << 0, 0, 0 >> }

\* The same for entries made of blocks (total_compressed_size is not used).
BlockLayouts ==
    { << SegmentOffset(3), 0, Len(GoodTag) >>,
      << SegmentOffset(3), 0, Len(RawPayload) >>,
      << SegmentOffset(5), 0, Len(GoodTag) >>,
      << SegmentOffset(5), 0, Len(RawPayload) >> }

\* The second entry of the module: a resource, stored in the module, in the
\* hd1 file, or flagged invalid.
SiblingProfiles ==
    { Entry(0, 0, << SegmentOffset(5), Len(RawPayload), Len(RawPayload) >>, -1, 0, {}),
      Entry(0, 0, << 0, Len(Hd1Data), Len(Hd1Data) >>, -1, 0, {"USE_HD1"}),
      Entry(0, 0, << 0, 0, 0 >>, TagIdA, 0, {"INVALID"}) }

Block(coff, csize, doff, dsize, compressed) ==
    [compressed_offset |-> coff, compressed_size |-> csize,
     decompressed_offset |-> doff, decompressed_size |-> dsize,
     is_compressed |-> compressed]

\* The block tables a module may carry: a tag split into a raw header and a
\* compressed rest; a raw block followed by a compressed one; two raw
\* blocks whose destinations overlap; two raw blocks stored in the file in
\* the reverse of their table order.
BlockTables ==
    { << Block(0, SplitAt, 0, SplitAt, FALSE),
         Block(SplitAt, Len(GoodTag) - SplitAt + 1, SplitAt, Len(GoodTag) - SplitAt, TRUE) >>,
      << Block(0, 1, 0, 1, FALSE), Block(1, 3, 1, 2, TRUE) >>,
      << Block(0, 2, 0, 2, FALSE), Block(2, 2, 1, 2, FALSE) >>,
      << Block(1, 1, 0, 1, FALSE), Block(0, 1, 1, 1, FALSE) >> }

\* A ModuleFile that has been read: module_open is module_file.is_some().
ModuleProfile(d, o) ==
    [version |-> Season3, hd1_delta |-> d, hd1_open |-> o, module_open |-> TRUE]

\* hd1_file is open only if hd1_delta != 0 (ModuleFile::open_hd1).
ModuleProfiles ==
    { ModuleProfile(0, FALSE), ModuleProfile(Hd1Base, FALSE), ModuleProfile(Hd1Base, TRUE) }

NoCall ==
    [op |-> "none", index |-> -1, res |-> "Ok", stage |-> "none", value |-> None,
     reader |-> "module",
     io |-> << >>, kraken |-> << >>, used |-> << >>]

NoHeaderRun ==
    [kind |-> "none", stream |-> << >>, hd1_exists |-> FALSE, res |-> "none",
     log |-> << >>, reads |-> 0, pos |-> 0, resource_indices |-> << >>]

NoResolverRun ==
    [size |-> 0, current_block |-> 0, collection_offset |-> 0, buf |-> << >>,
     structs |-> << >>, dblocks |-> << >>, res |-> "none", elements |-> << >>,
     used |-> << >>, at |-> << >>]

NoRun == [fn |-> "none", res |-> "none"]

\* The entries the lifecycle is followed on: a tag stored raw, compressed
\* and in blocks, a resource payload, a tag with a bad magic, an entry with
\* a negative block index, and entries whose declared header is larger
\* than the whole entry.
LifecycleProfiles ==
    { Entry(0, 0, << SegmentOffset(1), Len(GoodTag), Len(GoodTag) >>, TagIdA, GoodHeaderSize, {}),
      Entry(0, 0, << SegmentOffset(2), Len(GoodTag) + 1, Len(GoodTag) >>, TagIdA, GoodHeaderSize, {}),
      Entry(2, 0, << SegmentOffset(3), 0, Len(GoodTag) >>, TagIdA, GoodHeaderSize, {}),
      Entry(0, 0, << SegmentOffset(5), Len(RawPayload), Len(RawPayload) >>, -1, 0, {}),
      Entry(0, 0, << SegmentOffset(5), Len(RawPayload), Len(RawPayload) >>, -1, GoodHeaderSize, {}),
      Entry(0, 0, << SegmentOffset(6), Len(BadMagicTag), Len(BadMagicTag) >>, TagIdA, 0, {}),
      Entry(0, 0, << SegmentOffset(7), Len(BadVersionTag), Len(BadVersionTag) >>, TagIdA,
            GoodHeaderSize, {}),
      Entry(1, -1, << SegmentOffset(3), 0, Len(GoodTag) >>, TagIdA, GoodHeaderSize, {}) }

TagBlockTable ==
    << Block(0, SplitAt, 0, SplitAt, FALSE),
       Block(SplitAt, Len(GoodTag) - SplitAt + 1, SplitAt, Len(GoodTag) - SplitAt, TRUE) >>

Init ==
    /\ \E e \in LifecycleProfiles, sib \in SiblingProfiles : files = << e, sib >>
    /\ blocks = TagBlockTable
    /\ module \in ModuleProfiles
    /\ reader_pos = [module |-> file_data_offset, hd1 |-> 0]
    /\ last = NoCall
    /\ target = DefaultTarget
    /\ hdr = NoHeaderRun
    /\ rs = NoResolverRun
    /\ run = NoRun

\* A panic ends the program.
Running == last.res # "Panic"

\* The table positions (1-based) whose decompress call read_tag on entry
\* can reach; for an entry without blocks, position 1 stands for its one
\* segment.
Decompressing(entry) ==
    IF entry.block_count = 0
    THEN IF entry.total_compressed_size # entry.total_uncompressed_size THEN {1} ELSE {}
    ELSE { k \in 1..Len(blocks) :
             /\ blocks[k].is_compressed
             /\ k > entry.block_index /\ k <= entry.block_index + entry.block_count }

\* One report of the native library for every decompress call the load of
\* entry can make.
KindChoices(entry) ==
    { [k \in 1..Max(1, Len(blocks)) |-> IF k \in DOMAIN ks THEN ks[k] ELSE "exact"] :
        ks \in [Decompressing(entry) -> KrakenReportKinds] }

\* The state after a call of op on entry index handed back o, the caller
\* seeing value.
Called(op, index, o, value) ==
    /\ files' = [files EXCEPT ![index + 1] = o.entry]
    /\ reader_pos' = [reader_pos EXCEPT ![o.reader] = o.pos]
    /\ last' = [op |-> op, index |-> index, res |-> o.res, stage |-> o.stage,
                value |-> value,
                reader |-> o.reader, io |-> o.io, kraken |-> o.kraken, used |-> << >>]

CalledReadTag(index, o) == Called("read_tag", index, o, o.value)

\* read_tag_from_id hands back the index where read_tag hands back the id.
CalledFromId(index, o) ==
    Called("read_tag_from_id", index, o,
           IF o.res = "Ok" /\ o.value.some THEN Some(index) ELSE None)

\* module.read_tag(index)
ReadTag(index) ==
    /\ Running
    /\ \E kinds \in KindChoices(files[index + 1]) :
           CalledReadTag(index, ModuleFile_read_tag(index, kinds))
    /\ UNCHANGED <<blocks, module, target, hdr, rs, run>>

\* module.read_tag_from_id(global_id)
ReadTagFromId(global_id) ==
    /\ Running
    /\ IF PositionOfId(global_id) < 0
       THEN /\ last' = [NoCall EXCEPT !.op = "read_tag_from_id"]
            /\ UNCHANGED <<files, reader_pos, run>>
       ELSE \E kinds \in KindChoices(files[PositionOfId(global_id) + 1]) :
                CalledFromId(PositionOfId(global_id),
                             ModuleFile_read_tag(PositionOfId(global_id), kinds))
    /\ UNCHANGED <<blocks, module, target, hdr, rs, run>>

\* The state after read_metadata on entry index handed back m.
CalledMetadata(index, m) ==
    /\ files' = [files EXCEPT ![index + 1] = m.entry]
    /\ target' = m.target
    /\ last' = [NoCall EXCEPT !.op = "read_metadata", !.index = index,
                              !.res = m.res, !.used = m.used]

\* module.files[index].read_metadata(&mut T::default())
ReadMetadata(index) ==
    /\ Running
    /\ CalledMetadata(index, read_metadata(files[index + 1], DefaultTarget))
    /\ UNCHANGED <<blocks, module, reader_pos, hdr, rs, run>>

Next ==
    \/ \E index \in 0..(Len(files) - 1) : ReadTag(index)
    \/ \E global_id \in {-1, TagIdA, TagIdB} : ReadTagFromId(global_id)
    \/ \E index \in 0..(Len(files) - 1) : ReadMetadata(index)

Spec == Init /\ [][Next]_vars

-----------------------------------------------------------------------------
(* Properties of the lifecycle                                             *)

\* C1: lazy loading is idempotent.  Once an entry is loaded, no step unloads
\* it, and a later read_tag on it (through ModuleFile::read_tag or
\* read_tag_from_id) succeeds without a seek, a read or a decompression,
\* moves no reader, and leaves the entry (data buffer, tag info, loaded
\* flag) as it was.
C1_LoadedOnce ==
    [][ \A i \in 1..Len(files) :
          files[i].is_loaded =>
            /\ files'[i].is_loaded
            /\ (last'.op \in {"read_tag", "read_tag_from_id"} /\ last'.index = i - 1) =>
                 /\ last'.res = "Ok"
                 /\ last'.stage = "guard"
                 /\ last'.io = << >>
                 /\ last'.kraken = << >>
                 /\ files'[i] = files[i]
                 /\ reader_pos' = reader_pos ]_vars

\* A read_tag that found its entry loaded: it reports the tag id and has
\* done no I/O (a load always starts with a rewind).
C1_Witness ==
    /\ last.op \in {"read_tag", "read_tag_from_id"}
    /\ last.index >= 0
    /\ files[last.index + 1].is_loaded
    /\ last.value.some
    /\ last.stage = "guard"

\* C2: stage ordering per entry.  Tag info exists only on an entry whose
\* buffer is assembled, a structure is populated only from an entry with
\* tag info, and read_metadata answers NotLoaded on an entry without a data
\* stream and NoTagInfo on a loaded entry without tag info, the structure
\* staying untouched in both cases.
C2_StageOrder ==
    /\ \A i \in 1..Len(files) : files[i].tag_info.present => files[i].data_stream.present
    /\ last.op = "read_metadata" =>
         /\ target.touched => files[last.index + 1].tag_info.present
         /\ ~files[last.index + 1].data_stream.present =>
                (last.res = "NotLoaded" /\ ~target.touched)
         /\ (files[last.index + 1].is_loaded /\ ~files[last.index + 1].tag_info.present) =>
                (last.res = "NoTagInfo" /\ ~target.touched)

-----------------------------------------------------------------------------
(* Block assembly on its own: one entry, every layout and block table      *)

\* The entries assembly is followed on: stored as one segment or made of
\* blocks, tags and resources, with every block range the bounds allow.
AssemblyProfiles ==
    { Entry(0, bi, l, id, 0, {}) :
        bi \in -1..MaxBlockIndex, l \in SingleLayouts, id \in {-1, TagIdA} }
    \cup
    { Entry(bc, bi, l, id, 0, {}) :
        bc \in 1..MaxBlockCount, bi \in -1..MaxBlockIndex, l \in BlockLayouts,
        id \in {-1, TagIdA} }

InitAssemble ==
    /\ \E e \in AssemblyProfiles : files = << e >>
    /\ blocks \in BlockTables
    /\ module = ModuleProfile(0, FALSE)
    /\ reader_pos = [module |-> file_data_offset, hd1 |-> 0]
    /\ last = NoCall
    /\ target = DefaultTarget
    /\ hdr = NoHeaderRun
    /\ rs = NoResolverRun
    /\ run = NoRun

NextAssemble == \E index \in 0..(Len(files) - 1) : ReadTag(index)

SpecAssemble == InitAssemble /\ [][NextAssemble]_vars

\* The last call was a read_tag that went past the is_loaded guard.
Loading == last.op = "read_tag" /\ last.stage \in {"assemble", "parse", "done"}

\* ... and that assembled the buffer and stored it as the data stream.
Assembled == last.op = "read_tag" /\ last.stage \in {"parse", "done"}

\* Where the entry's data starts in the module file.
FileOffset(e) == file_data_offset + e.data_offset

\* C4: after a successful read_tag the assembled buffer is exactly
\* total_uncompressed_size cells long, whatever count the decompressor
\* reported.
C4_BufferLength ==
    \A i \in 1..Len(files) :
        files[i].is_loaded =>
            Len(files[i].data_stream.buf) = files[i].total_uncompressed_size

\* C5: an entry without blocks is read as one segment of
\* total_compressed_size cells at its file offset.  With equal sizes the
\* buffer is those cells and decompress is not called; otherwise decompress
\* is called once, on those cells, for total_uncompressed_size cells, and
\* what it hands back is the buffer.
C5_SingleSegment ==
    (Loading /\ files[last.index + 1].block_count = 0) =>
        LET e == files[last.index + 1]
            cells == FileSlice("module", FileOffset(e), e.total_compressed_size)
            fits == CanRead("module", FileOffset(e), e.total_compressed_size)
        IN  /\ last.io = << Ev("rewind", 0), Ev("seek", FileOffset(e)),
                            Ev("read", e.total_compressed_size) >>
            /\ Assembled => (fits /\ e.data_stream.present)
            /\ IF e.total_compressed_size = e.total_uncompressed_size
               THEN /\ last.kraken = << >>
                    /\ fits => (Assembled /\ e.data_stream.buf = cells)
               ELSE /\ Len(last.kraken) = IF fits THEN 1 ELSE 0
                    /\ fits =>
                         /\ last.kraken[1].input = cells
                         /\ last.kraken[1].size = e.total_uncompressed_size
                         /\ Assembled <=> last.kraken[1].res = "Ok"
                         /\ Assembled => e.data_stream.buf = last.kraken[1].out

\* A compressed single segment, decompressed and loaded.
C5_Witness ==
    /\ Loading
    /\ files[last.index + 1].block_count = 0
    /\ Len(last.kraken) = 1
    /\ files[last.index + 1].is_loaded
    /\ Len(files[last.index + 1].data_stream.buf) > 0

\* The table positions (1-based) of the blocks of entry e, in table order.
BlockRange(e) == (e.block_index + 1)..(e.block_index + e.block_count)

\* How many buffer cells block b fills.
SegmentLen(b) == IF b.is_compressed THEN b.decompressed_size ELSE b.compressed_size

RECURSIVE SumOver(_, _, _)
SumOver(Len_(_), from, to) ==
    IF from > to THEN 0 ELSE Len_(blocks[from]) + SumOver(Len_, from + 1, to)

CompressedLen(b) == b.compressed_size

\* The cells of block k of entry e: the file cells that follow those of the
\* entry's earlier blocks, or what decompress made of them (the j-th call
\* belongs to the j-th compressed block of the range).
SegmentOf(e, k, kraken) ==
    IF blocks[k].is_compressed
    THEN kraken[Cardinality({ j \in (e.block_index + 1)..k : blocks[j].is_compressed })].out
    ELSE FileSlice("module",
                   FileOffset(e) + SumOver(CompressedLen, e.block_index + 1, k - 1),
                   blocks[k].compressed_size)

\* The blocks of e whose destination covers buffer position p (0-based).
Covering(e, p) ==
    { k \in BlockRange(e) :
        /\ blocks[k].decompressed_offset <= p
        /\ p < blocks[k].decompressed_offset + SegmentLen(blocks[k]) }

\* The destinations of the blocks of e follow one another from 0 to the end
\* of the buffer.
Contiguous(e) ==
    /\ \A k \in BlockRange(e) :
          blocks[k].decompressed_offset = SumOver(SegmentLen, e.block_index + 1, k - 1)
    /\ SumOver(SegmentLen, e.block_index + 1, e.block_index + e.block_count)
          = e.total_uncompressed_size

\* The block indices (0-based) the call went through, in order.
BlocksVisited ==
    LET evs == SelectSeq(last.io, LAMBDA ev : ev.op = "block")
    IN  [n \in 1..Len(evs) |-> evs[n].arg]

\* C6: an entry made of blocks is assembled from the blocks at table indices
\* block_index .. block_index + block_count - 1, in table order and no
\* others; every block's cells (raw, or decompressed) land at its
\* decompressed_offset, a later block overwriting an earlier one where they
\* overlap, cells no block covers staying 0; and when the destinations are
\* contiguous the buffer is the concatenation of the segments.
C6_MultiBlock ==
    (Loading /\ files[last.index + 1].block_count >= 1) =>
        LET e == files[last.index + 1]
            buf == e.data_stream.buf
        IN  /\ Len(BlocksVisited) <= e.block_count
            /\ \A n \in 1..Len(BlocksVisited) : BlocksVisited[n] = e.block_index + n - 1
            /\ Assembled =>
                 /\ Len(BlocksVisited) = e.block_count
                 /\ Len(last.kraken) =
                        Cardinality({ k \in BlockRange(e) : blocks[k].is_compressed })
                 /\ Len(buf) = e.total_uncompressed_size
                 /\ \A p \in 0..(Len(buf) - 1) :
                        IF Covering(e, p) = {} THEN buf[p + 1] = 0
                        ELSE LET k == CHOOSE k \in Covering(e, p) :
                                          \A j \in Covering(e, p) : j <= k
                             IN  buf[p + 1] = SegmentOf(e, k, last.kraken)
                                                  [p - blocks[k].decompressed_offset + 1]
                 /\ Contiguous(e) =>
                        buf = Concat([n \in 1..e.block_count |->
                                         SegmentOf(e, e.block_index + n, last.kraken)])

\* A raw block followed by a compressed one, assembled into a loaded entry.
C6_Witness ==
    /\ Assembled
    /\ files[last.index + 1].block_count = 2
    /\ Len(last.kraken) = 1
    /\ Contiguous(files[last.index + 1])
    /\ files[last.index + 1].is_loaded

\* C7: with block_count != 0 and a negative block_index, read_tag answers
\* NegativeBlockIndex having done nothing but the rewind (no seek, no block
\* looked up, no cell read, no decompression), and the entry stays
\* unloaded; with block_count = 0 a negative block_index is no error.
C7_NegativeBlockIndex ==
    /\ \A i \in 1..Len(files) :
          (files[i].block_count # 0 /\ files[i].block_index < 0) =>
              (~files[i].is_loaded /\ ~files[i].data_stream.present)
    /\ Loading =>
         IF files[last.index + 1].block_count # 0 /\ files[last.index + 1].block_index < 0
         THEN /\ last.res = "NegativeBlockIndex"
              /\ last.io = << Ev("rewind", 0) >>
              /\ last.kraken = << >>
         ELSE last.res # "NegativeBlockIndex"

\* The error has been returned for an entry made of blocks.
C7_Witness ==
    /\ Loading
    /\ last.res = "NegativeBlockIndex"
    /\ files[last.index + 1].block_count # 0
    /\ files[last.index + 1].block_index < 0

-----------------------------------------------------------------------------
(* Opening files: ModuleFile::read and TagFile::read on their own           *)

MaxFileCount == 2       \* file_count of a module image ranges over 0..MaxFileCount

MaxReads == 2           \* how often one file is read

EntryRow ==
    << 0, 0, 0, 0, 0, 0, SegmentOffset(5), Len(RawPayload), Len(RawPayload), -1,
       0, 0, 0, 0, 0, 0, 0, 0, 0, -1, 0, 0, 0 >>

BlockRow == << 0, 1, 0, 1, 0 >>

Repeat(row, n) == Concat([k \in 1..n |-> row])

\* A module file up to its data: header, file entries, resource indices,
\* block table.
ModuleImage(magic, version, file_count, resource_count, block_count, hd1_delta) ==
    << magic, version, 0, file_count, 0, 0, 0, 0, 0, resource_count, block_count,
       0, hd1_delta, 0 >>
    \o (IF version >= Release THEN << 0 >> ELSE << >>)
    \o Repeat(EntryRow, file_count)
    \o Repeat(<< 0 >>, resource_count)
    \o Repeat(BlockRow, block_count)

\* The first c cells of a file.
Truncated(s, c) == SubSeq(s, 1, Min(c, Len(s)))

\* Where files are cut short: inside the header, inside the tables, not at all.
Cuts(s) == {0, 1, 2, Len(ModuleHeaderFields) - 1, Len(s) - 1, Len(s)}

\* The name of an entry of a module older than Season 3 is looked up in a
\* string table by read_null_terminated_string, which the sources do not
\* hold: such modules are followed without file entries.
ModuleShapes ==
    { p \in {MODULE_HEADER_MAGIC, TAG_HEADER_MAGIC}
            \X {Flight1 - 1, Flight1, Release, CampaignFlight, Season3, Season3 + 1}
            \X (0..MaxFileCount) \X (0..1) \X (0..MaxBlockCount) \X {0, Hd1Base} :
        p[3] = 0 \/ p[2] \notin {Flight1, Release, CampaignFlight} }

ModuleStreams ==
    UNION { { Truncated(ModuleImage(p[1], p[2], p[3], p[4], p[5], p[6]), c) :
                c \in Cuts(ModuleImage(p[1], p[2], p[3], p[4], p[5], p[6])) } :
            p \in ModuleShapes }

\* The header_size a tag header declares: nothing, what the header and the
\* tables of the full tag take, and more than the whole file.
HeaderSizes == {0, GoodHeaderSize, 2 * GoodHeaderSize}

TagStreams ==
    UNION { { Truncated(TagImage(magic, version, nblocks, structs, header_size, GoodData), c) :
                c \in Cuts(TagImage(magic, version, nblocks, structs, header_size,
                                    GoodData)) \cup {Len(TagHeaderFields) + 1} } :
            magic \in {TAG_HEADER_MAGIC, MODULE_HEADER_MAGIC, 0},
            version \in {HEADER_VERSION - 1, HEADER_VERSION, HEADER_VERSION + 1},
            nblocks \in 0..2,
            structs \in {<< >>, RootStructRow, RootStructRow \o BlockStructRow},
            header_size \in HeaderSizes }

\* ModuleFile::new(): nothing read, no file open.
NewModule == [ModuleProfile(0, FALSE) EXCEPT !.module_open = FALSE]

InitHeader ==
    /\ files = << >>
    /\ blocks = << >>
    /\ module = NewModule
    /\ reader_pos = [module |-> 0, hd1 |-> 0]
    /\ last = NoCall
    /\ target = DefaultTarget
    /\ \/ \E stream \in ModuleStreams, x \in BOOLEAN :
             hdr = [NoHeaderRun EXCEPT !.kind = "module", !.stream = stream,
                                       !.hd1_exists = x]
       \/ \E stream \in TagStreams :
             hdr = [NoHeaderRun EXCEPT !.kind = "tag", !.stream = stream]
    /\ rs = NoResolverRun
    /\ run = NoRun

\* The state after ModuleFile::read handed back m.
ModuleWasRead(m) ==
    /\ files' = m.files
    /\ blocks' = m.blocks
    /\ module' = IF \E k \in 1..Len(m.log) : m.log[k] = "data_size"
                 THEN [version |-> ModuleField(hdr.stream, "version"),
                       hd1_delta |-> ModuleField(hdr.stream, "hd1_delta"),
                       hd1_open |-> m.hd1_open,
                       module_open |-> module.module_open \/ m.res = "Ok"]
                 ELSE module
    /\ reader_pos' = IF m.res = "Ok"
                     THEN [reader_pos EXCEPT !.module = AlignedOffset(m.pos)]
                     ELSE reader_pos
    /\ hdr' = [hdr EXCEPT !.res = m.res, !.log = m.log, !.reads = @ + 1, !.pos = m.pos,
                          !.resource_indices = m.resource_indices]
    /\ last' = [NoCall EXCEPT !.op = "read", !.res = m.res]

\* module.read(file_path)
ModuleFileRead ==
    /\ hdr.kind = "module"
    /\ hdr.reads < MaxReads
    /\ ModuleWasRead(ModuleFile_read(hdr.stream, hdr.hd1_exists, files, blocks))
    /\ UNCHANGED <<target, rs, run>>

\* The state after TagFile::read handed back tf.
TagWasRead(tf) ==
    /\ hdr' = [hdr EXCEPT !.res = tf.res, !.log = tf.log, !.reads = @ + 1, !.pos = tf.pos]
    /\ last' = [NoCall EXCEPT !.op = "tag_read", !.res = tf.res]

\* TagFile::default().read(stream)
TagFileRead ==
    /\ hdr.kind = "tag"
    /\ hdr.reads < MaxReads
    /\ TagWasRead(TagFile_read(hdr.stream))
    /\ UNCHANGED <<files, blocks, module, reader_pos, target, rs, run>>

NextHeader == ModuleFileRead \/ TagFileRead

SpecHeader == InitHeader /\ [][NextHeader]_vars

\* The records of the tables that follow a header, as they show in a log.
TableRecords ==
    {"file_entry", "resource_index", "block_entry"} \cup TableNames

\* C3: header validation comes first.  Both header readers take the magic
\* and then the version from the stream and check each before anything
\* else is read: a module whose magic is not 'mohd' or whose version is no
\* known revision makes ModuleFile::read fail with IncorrectMagic /
\* IncorrectVersion with no file entry, resource index or block entry read;
\* a tag whose magic is not 'ucsh' or whose version is not 27 is rejected
\* with no record of a cross-reference table read.
C3_HeaderFirst ==
    hdr.res # "none" =>
        LET magic == IF hdr.kind = "module" THEN MODULE_HEADER_MAGIC ELSE TAG_HEADER_MAGIC
            versions == IF hdr.kind = "module" THEN ModuleVersions ELSE {HEADER_VERSION}
            n == Len(hdr.stream)
        IN  /\ Len(hdr.log) >= 1 => hdr.log[1] = "magic"
            /\ Len(hdr.log) >= 2 => hdr.log[2] = "version"
            /\ (n >= 1 /\ hdr.stream[1] # magic) =>
                   (hdr.res = "IncorrectMagic" /\ hdr.log = << "magic" >>)
            /\ (n >= 2 /\ hdr.stream[1] = magic /\ hdr.stream[2] \notin versions) =>
                   (hdr.res = "IncorrectVersion" /\ hdr.log = << "magic", "version" >>)
            /\ hdr.res \in {"IncorrectMagic", "IncorrectVersion"} =>
                   /\ \A k \in 1..Len(hdr.log) : hdr.log[k] \notin TableRecords
                   /\ files = << >>
                   /\ blocks = << >>
            /\ hdr.res = "IncorrectMagic" => hdr.stream[1] # magic
            /\ hdr.res = "IncorrectVersion" => hdr.stream[2] \notin versions

\* A module file with a good magic, an unknown version and tables behind
\* the header has been refused.
C3_Witness ==
    /\ hdr.kind = "module"
    /\ hdr.res = "IncorrectVersion"
    /\ Len(hdr.stream) > Len(ModuleHeaderFields) + 1

-----------------------------------------------------------------------------
(* Structure resolution on its own: struct and datablock tables of every   *)
(* shape                                                                   *)

MaxCount == 3           \* the declared count of the block field ranges over 0..MaxCount

MaxStructs == 2         \* a struct table has at most MaxStructs entries

\* The struct-table entries the tables are made of.
StructChoices ==
    [struct_type : {MainStruct, TagBlock}, target_index : {-1, 0, 1},
     field_block : {0}, field_offset : {0, RootBlockOffset}]

StructTables == UNION { [1..n -> StructChoices] : n \in 0..MaxStructs }

\* Datablock 0 holds the root structure, datablock 1 the elements.
DataBlockTables ==
    { << [entry_size |-> RootSize, section_type |-> 1, offset |-> 0] >>,
      << [entry_size |-> RootSize, section_type |-> 1, offset |-> 0],
         [entry_size |-> 3 * ElemSize, section_type |-> 1, offset |-> RootSize] >> }

\* The tag data with n as the declared count of the root's block field.
DataWithCount(n) == [GoodData EXCEPT ![RootBlockOffset + FieldBlockCells] = n]

\* A loaded tag entry whose stream stands at header_size, as read_tag
\* leaves it.
ResolverEntry(structs, dblocks, n) ==
    [Entry(0, 0, << 0, GoodHeaderSize + Len(GoodData), GoodHeaderSize + Len(GoodData) >>,
           TagIdA, GoodHeaderSize, {})
        EXCEPT !.data_stream = [present |-> TRUE,
                                buf |-> Zeros(GoodHeaderSize) \o DataWithCount(n),
                                pos |-> GoodHeaderSize],
               !.tag_info = [present |-> TRUE, header_size |-> GoodHeaderSize,
                             datablock_definitions |-> dblocks,
                             struct_definitions |-> structs],
               !.is_loaded = TRUE]

InitResolve ==
    /\ \E structs \in StructTables, dblocks \in DataBlockTables, n \in 0..MaxCount,
          cb \in {0, 1} :
          /\ files = << ResolverEntry(structs, dblocks, n) >>
          /\ rs = [NoResolverRun EXCEPT !.size = n, !.current_block = cb,
                                        !.collection_offset = RootBlockOffset,
                                        !.buf = DataWithCount(n),
                                        !.structs = structs, !.dblocks = dblocks]
    /\ blocks = << >>
    /\ module = ModuleProfile(0, FALSE)
    /\ reader_pos = [module |-> file_data_offset, hd1 |-> 0]
    /\ last = NoCall
    /\ target = DefaultTarget
    /\ hdr = NoHeaderRun
    /\ run = NoRun

\* The state after load_blocks handed back l.
BlocksLoaded(l) ==
    /\ rs' = [rs EXCEPT !.res = l.res, !.elements = l.target.elements,
                        !.used = l.used, !.at = l.at]
    /\ target' = l.target
    /\ last' = [NoCall EXCEPT !.op = "load_blocks", !.res = l.res, !.used = l.used]

\* field.load_blocks(current_block, collection_offset, reader, structs, blocks)
\* on a block field whose declared count has been read.
LoadBlocks ==
    /\ Running
    /\ rs.res = "none"
    /\ BlocksLoaded(load_blocks([DefaultTarget EXCEPT !.size = rs.size], rs.current_block,
                                rs.collection_offset, rs.buf, rs.structs, rs.dblocks))
    /\ UNCHANGED <<files, blocks, module, reader_pos, hdr, run>>

NextResolve == LoadBlocks \/ ReadMetadata(0)

SpecResolve == InitResolve /\ [][NextResolve]_vars

\* The struct-table entries (1-based) at the address of the block field.
AtAddress ==
    { k \in 1..Len(rs.structs) :
        /\ rs.structs[k].field_block = rs.current_block
        /\ rs.structs[k].field_offset = rs.collection_offset }

\* C8: load_blocks answers Ok with an empty element list, no datablock
\* looked up and nothing read, whenever the declared count is 0, or no
\* struct-table entry is at the field's address, or all that are have
\* target_index -1.
C8_EmptyBlock ==
    (rs.res # "none"
     /\ (rs.size = 0 \/ \A k \in AtAddress : rs.structs[k].target_index = -1)) =>
        /\ rs.res = "Ok"
        /\ rs.elements = << >>
        /\ rs.used = << >>
        /\ rs.at = << >>

\* A field with a count above 0 whose only struct entries point nowhere
\* has been resolved.
C8_Witness ==
    /\ rs.res = "Ok"
    /\ rs.size > 0
    /\ AtAddress # {}
    /\ \A k \in AtAddress : rs.structs[k].target_index = -1

\* The cell of buf at 0-based position p, or -1 past its end.
CellOr(buf, p) == IF p < Len(buf) THEN buf[p + 1] ELSE -1

\* C9: a block field of declared count n matched to a datablock resolves to
\* n elements, element i read at i * element_size inside the datablock, its
\* field at (datablock offset + i * element_size + field offset).
C9_ElementOffsets ==
    (rs.res = "Ok" /\ rs.used # << >>) =>
        /\ Len(rs.elements) = rs.size
        /\ rs.at = [n \in 1..rs.size |-> (n - 1) * ElemSize]
        /\ \A i \in 0..(rs.size - 1) :
              rs.elements[i + 1] =
                  CellOr(rs.buf, rs.dblocks[rs.used[1] + 1].offset + i * ElemSize
                                     + ElemLeafOffset)

\* C10: no call of read_metadata and no call of load_blocks indexes the
\* datablock table with a target_index of -1.
C10_AbsentNeverIndexed ==
    /\ \A k \in 1..Len(last.used) : last.used[k] # -1
    /\ \A k \in 1..Len(rs.used) : rs.used[k] # -1

-----------------------------------------------------------------------------
(* Tag paths: ModuleFile::get_tag_path (loader.rs)                          *)

\* The fields of a file entry that get_tag_path looks at.
PathEntry(tag_name, tag_id, parent_index, resource_index, resource_count) ==
    [tag_name |-> tag_name, tag_group |-> "grp", tag_id |-> tag_id,
     parent_index |-> parent_index, resource_index |-> resource_index,
     resource_count |-> resource_count]

\* A path: "<group>/<id>.<group>" (kind "tag"), tag_id.to_string() (kind
\* "id") or "<group>/<name>.<group>" of a named parent (kind "named"),
\* followed by one "[k:resource]" for every k of ords.
Path(kind, entry, ords) ==
    [kind |-> kind, tag_group |-> IF kind = "id" THEN "" ELSE entry.tag_group,
     tag_name |-> IF kind = "named" THEN entry.tag_name ELSE "",
     tag_id |-> IF kind = "named" THEN 0 ELSE entry.tag_id, ords |-> ords]

NoPath == [kind |-> "none", tag_group |-> "", tag_name |-> "", tag_id |-> 0, ords |-> << >>]

\* What a call of get_tag_path hands back; calls lists the index of every
\* nested call made, outermost first.
PathResult(res, path, calls) == [res |-> res, path |-> path, calls |-> calls]

DepthExceeded_late(depth) == depth > 4

\* if depth > 3 { return Err(RecursionDepth) }
DepthExceeded(depth) == depth > 3

\* child_index: the entries of the span taken while they are not the file
\* itself, each looked up in files as it is taken.  span is what is left of
\* the span, n the count so far.
RECURSIVE ChildIndex(_, _, _, _)
ChildIndex(fs, span, index, n) ==
    IF span = << >> THEN n
    ELSE IF Head(span) >= Len(fs) THEN -1
    ELSE IF Head(span) = index THEN n
    ELSE ChildIndex(fs, Tail(span), index, n + 1)

\* format!("{parent_path}[{child_index}:resource]") on the parent's path r.
NestedPath(r, index, child_index) ==
    IF r.res # "Ok" THEN PathResult(r.res, NoPath, << index >> \o r.calls)
    ELSE PathResult("Ok", [r.path EXCEPT !.ords = Append(@, child_index)],
                    << index >> \o r.calls)

RECURSIVE get_tag_path(_, _, _, _)

\* get_tag_path once child_index is known (-1: a lookup in files panicked).
PathOfChild(fs, ris, index, depth, child_index) ==
    IF child_index < 0 THEN PathResult("Panic", NoPath, << index >>)
    ELSE IF fs[fs[index + 1].parent_index + 1].tag_name = "-1"
    THEN NestedPath(get_tag_path(fs, ris, fs[index + 1].parent_index, depth + 1),
                    index, child_index)
    ELSE PathResult("Ok", Path("named", fs[fs[index + 1].parent_index + 1], << child_index >>),
                    << index >>)

\* get_tag_path on an entry without a name of its own, parent being its
\* parent entry: the parent's resource span is sliced out of
\* resource_indices.
PathFromParent(fs, ris, index, depth, parent) ==
    IF parent.resource_index < 0 \/ parent.resource_count < 0
    THEN PathResult("TryFromIntError", NoPath, << index >>)
    ELSE IF parent.resource_index + parent.resource_count > Len(ris)
    THEN PathResult("Panic", NoPath, << index >>)
    ELSE PathOfChild(fs, ris, index, depth,
             ChildIndex(fs, Slice(ris, parent.resource_index,
                                  parent.resource_index + parent.resource_count),
                        index, 0))

\* ModuleFile::get_tag_path(index, depth) over self.files = fs and
\* self.resource_indices = ris.
get_tag_path(fs, ris, index, depth) ==
    IF DepthExceeded(depth) THEN PathResult("RecursionDepth", NoPath, << index >>)
    ELSE IF index >= Len(fs) THEN PathResult("Panic", NoPath, << index >>)
    ELSE IF fs[index + 1].tag_name = "-1" /\ fs[index + 1].parent_index # -1
    THEN IF fs[index + 1].parent_index < 0
         THEN PathResult("TryFromIntError", NoPath, << index >>)
         ELSE IF fs[index + 1].parent_index >= Len(fs)
         THEN PathResult("Panic", NoPath, << index >>)
         ELSE PathFromParent(fs, ris, index, depth, fs[fs[index + 1].parent_index + 1])
    ELSE IF fs[index + 1].tag_id # -1
    THEN PathResult("Ok", Path("tag", fs[index + 1], << >>), << index >>)
    ELSE PathResult("Ok", Path("id", fs[index + 1], << >>), << index >>)

MaxChain == 6           \* a file table of the path runs has 1..MaxChain entries

\* Entry k of a chain of n entries: it has no name of its own, its parent is
\* entry k + 1 (last_parent for the last entry) and, as a parent, its
\* resource span is the one resource index that names its child.
ChainEntry(n, k, last_parent, named_at) ==
    PathEntry(IF k = named_at THEN "name" ELSE "-1",
              IF k = named_at THEN TagIdA ELSE -1,
              IF k = n - 1 THEN last_parent ELSE k + 1,
              Max(k - 1, 0), 1)

ChainTable(n, last_parent, named_at) ==
    [i \in 1..n |-> ChainEntry(n, i - 1, last_parent, named_at)]

\* An entry as a crafted file can hold it.
CraftedEntries(n) ==
    { PathEntry(id[1], id[2], parent, span[1], span[2]) :
        id \in { << "-1", -1 >>, << "-1", TagIdA >>, << "name", TagIdA >> },
        parent \in {-2, -1, 0, n},
        span \in { << 0, 0 >>, << 0, 1 >>, << 1, 1 >>, << 0, n + 1 >>, << -1, 1 >>,
                   << 0, -1 >> } }

\* The tables get_tag_path is run on: chains that end, chains that come
\* back to their first entry or end in an entry that is its own parent,
\* chains through a named entry, each as it is and with one entry crafted.
PathTables ==
    UNION { { ChainTable(p[1], p[2], p[3]) }
            \cup { [ChainTable(p[1], p[2], p[3]) EXCEPT ![p[4]] = c] :
                     c \in CraftedEntries(p[1]) } :
            p \in { q \in (1..MaxChain) \X (-1..(MaxChain - 1)) \X (-1..(MaxChain - 1))
                          \X (1..MaxChain) :
                      /\ q[4] <= q[1]
                      /\ q[2] \in {-1, 0, q[1] - 1}
                      /\ q[3] \in {-1, 1, q[1] - 1} } }

\* resource_indices of a table of n entries: index k names entry k, there
\* are none, or the first names no entry.
ResourceIndexTables(n) ==
    { [k \in 1..n |-> k - 1], << >>, << n >> \o [k \in 1..(n - 1) |-> k] }

InitPath ==
    /\ files = << >>
    /\ blocks = << >>
    /\ module = ModuleProfile(0, FALSE)
    /\ reader_pos = [module |-> 0, hd1 |-> 0]
    /\ last = NoCall
    /\ target = DefaultTarget
    /\ hdr = NoHeaderRun
    /\ rs = NoResolverRun
    /\ \E fs \in PathTables :
          \E ris \in ResourceIndexTables(Len(fs)), index \in 0..Len(fs) :
             run = [fn |-> "get_tag_path", res |-> "none", files |-> fs,
                    resource_indices |-> ris, index |-> index, path |-> NoPath,
                    calls |-> << >>]

\* The state after get_tag_path handed back r.
PathReturned(r) ==
    run' = [run EXCEPT !.res = r.res, !.path = r.path, !.calls = r.calls]

\* self.get_tag_path(index, 0)
GetTagPath ==
    /\ run.fn = "get_tag_path"
    /\ run.res = "none"
    /\ PathReturned(get_tag_path(run.files, run.resource_indices, run.index, 0))
    /\ UNCHANGED <<files, blocks, module, reader_pos, last, target, hdr, rs>>

NextPath == GetTagPath

SpecPath == InitPath /\ [][NextPath]_vars

\* get_tag_path recurses from entry k into its parent: k has no name of
\* its own, has a parent in the table, and the parent has no name either.
Recurses(fs, k) ==
    /\ k < Len(fs)
    /\ fs[k + 1].tag_name = "-1"
    /\ fs[k + 1].parent_index \in 0..(Len(fs) - 1)
    /\ fs[fs[k + 1].parent_index + 1].tag_name = "-1"

\* The entry d links up the parent chain of entry k, or -1 when the chain
\* of nameless entries ends before.
RECURSIVE Ancestor(_, _, _)
Ancestor(fs, k, d) ==
    IF d = 0 THEN k
    ELSE IF Recurses(fs, k) THEN Ancestor(fs, fs[k + 1].parent_index, d - 1)
    ELSE -1

\* The parent chain of the entry asked for cycles or is longer than the
\* depth bound: from every one of the first four entries on it the walk
\* goes on to the parent.
ChainTooLong == Ancestor(run.files, run.index, 4) >= 0

\* The resource span of the parent of entry k lies in resource_indices and
\* names entries of the table.
SpanInRange(fs, ris, k) ==
    LET parent == fs[fs[k + 1].parent_index + 1]
    IN  /\ parent.resource_index >= 0
        /\ parent.resource_count >= 0
        /\ parent.resource_index + parent.resource_count <= Len(ris)
        /\ \A j \in (parent.resource_index + 1)..(parent.resource_index + parent.resource_count) :
              ris[j] < Len(fs)

\* The walk of get_tag_path is bounded: one call from depth 0 makes at most
\* 5 nested calls (depth 0..4), up the chain of parents; the fifth is made
\* exactly when the result is RecursionDepth; an entry whose chain is too
\* long never gets a path, and gets RecursionDepth whenever the resource
\* spans looked at on the way are in range.
PathWalkBounded ==
    (run.fn = "get_tag_path" /\ run.res # "none") =>
        /\ Len(run.calls) \in 1..5
        /\ \A d \in 1..Len(run.calls) : run.calls[d] = Ancestor(run.files, run.index, d - 1)
        /\ (Len(run.calls) = 5) <=> (run.res = "RecursionDepth")
        /\ ChainTooLong => run.res \in {"RecursionDepth", "TryFromIntError", "Panic"}
        /\ (ChainTooLong /\ \A d \in 0..3 :
                SpanInRange(run.files, run.resource_indices,
                            Ancestor(run.files, run.index, d)))
               => run.res = "RecursionDepth"

\* C11: get_tag_path terminates on every file table: it makes at most 5
\* nested calls (depth 0..4) per entry, and for an entry whose chain of
\* parents cycles or is longer than the depth bound it returns the
\* RecursionDepth error.
C11_PathTerminates ==
    (run.fn = "get_tag_path" /\ run.res # "none") =>
        /\ Len(run.calls) \in 1..5
        /\ ChainTooLong => run.res = "RecursionDepth"

\* RecursionDepth has been returned for an entry that is its own parent.
C11_Witness ==
    /\ run.fn = "get_tag_path"
    /\ run.res = "RecursionDepth"
    /\ run.files[run.index + 1].parent_index = run.index

\* RecursionDepth has been returned for an entry of a chain that does not cycle.
C11_LongChain ==
    /\ run.fn = "get_tag_path"
    /\ run.res = "RecursionDepth"
    /\ run.calls = << 0, 1, 2, 3, 4 >>

-----------------------------------------------------------------------------
(* Fixed-length strings: BufReaderExt::read_fixed_string (extensions.rs)    *)

\* String::from_utf8 accepts bytes[i ..]: the well-formed UTF-8 byte
\* sequences of the Unicode standard, one scalar value after the other.
RECURSIVE Utf8Valid(_, _)
Utf8Valid(bytes, i) ==
    LET n == Len(bytes)
        Cont(k) == k <= n /\ bytes[k] \in 128..191
        In(k, lo, hi) == k <= n /\ bytes[k] \in lo..hi
    IN  IF i > n THEN TRUE
        ELSE IF bytes[i] < 128 THEN Utf8Valid(bytes, i + 1)
        ELSE IF bytes[i] \in 194..223 THEN Cont(i + 1) /\ Utf8Valid(bytes, i + 2)
        ELSE IF bytes[i] = 224 THEN In(i + 1, 160, 191) /\ Cont(i + 2) /\ Utf8Valid(bytes, i + 3)
        ELSE IF bytes[i] = 237 THEN In(i + 1, 128, 159) /\ Cont(i + 2) /\ Utf8Valid(bytes, i + 3)
        ELSE IF bytes[i] \in 225..239 THEN Cont(i + 1) /\ Cont(i + 2) /\ Utf8Valid(bytes, i + 3)
        ELSE IF bytes[i] = 240
        THEN In(i + 1, 144, 191) /\ Cont(i + 2) /\ Cont(i + 3) /\ Utf8Valid(bytes, i + 4)
        ELSE IF bytes[i] \in 241..243
        THEN Cont(i + 1) /\ Cont(i + 2) /\ Cont(i + 3) /\ Utf8Valid(bytes, i + 4)
        ELSE IF bytes[i] = 244
        THEN In(i + 1, 128, 143) /\ Cont(i + 2) /\ Cont(i + 3) /\ Utf8Valid(bytes, i + 4)
        ELSE FALSE

\* read_fixed_string once read_exact has filled buffer.
FixedString(buffer) ==
    IF buffer = << 255, 255, 255, 255 >> THEN [res |-> "Ok", value |-> << >>]
    ELSE IF Utf8Valid(buffer, 1) THEN [res |-> "Ok", value |-> buffer]
    ELSE [res |-> "FromUtf8Error", value |-> << >>]

\* reader.read_fixed_string(length) on a reader at the start of stream; the
\* String is the sequence of its bytes.
read_fixed_string(stream, length) ==
    IF length > Len(stream) THEN [res |-> "ReadError", value |-> << >>]
    ELSE FixedString(SubSeq(stream, 1, length))

MaxStringLength == 4    \* the streams of the string runs have 0..MaxStringLength bytes

\* The bytes of those streams: ASCII, a two-byte sequence, 0xFF.
ByteChoices == {0, 97, 195, 169, 255}

\* The empty marker of the 32-byte string fields.
LongMarker == [i \in 1..32 |-> 255]

FixedStreams ==
    UNION { [1..n -> ByteChoices] : n \in 0..MaxStringLength } \cup {LongMarker}

InitString ==
    /\ files = << >>
    /\ blocks = << >>
    /\ module = ModuleProfile(0, FALSE)
    /\ reader_pos = [module |-> 0, hd1 |-> 0]
    /\ last = NoCall
    /\ target = DefaultTarget
    /\ hdr = NoHeaderRun
    /\ rs = NoResolverRun
    /\ \E stream \in FixedStreams :
          \E length \in {0, Len(stream) - 1, Len(stream), Len(stream) + 1} \cap Nat :
             run = [fn |-> "read_fixed_string", res |-> "none", stream |-> stream,
                    length |-> length, value |-> << >>]

\* reader.read_fixed_string(length)
ReadFixedString ==
    /\ run.fn = "read_fixed_string"
    /\ run.res = "none"
    /\ run' = [run EXCEPT !.res = read_fixed_string(run.stream, run.length).res,
                          !.value = read_fixed_string(run.stream, run.length).value]
    /\ UNCHANGED <<files, blocks, module, reader_pos, last, target, hdr, rs>>

NextString == ReadFixedString

SpecString == InitString /\ [][NextString]_vars

\* C12: read_fixed_string(length) returns the empty string, not an encoding
\* error, whenever all the length bytes it read are 0xFF, whatever the
\* length.
C12_EmptyMarker ==
    (/\ run.fn = "read_fixed_string"
     /\ run.res # "none"
     /\ run.length <= Len(run.stream)
     /\ \A i \in 1..run.length : run.stream[i] = 255) =>
        /\ run.res = "Ok"
        /\ run.value = << >>

\* The marker of length 4 has been read as the empty string.
C12_Witness ==
    /\ run.fn = "read_fixed_string"
    /\ run.res = "Ok"
    /\ run.length = 4
    /\ run.stream = << 255, 255, 255, 255 >>

-----------------------------------------------------------------------------
(* A module from ModuleFile::new on: read, then read_tag                    *)

InitOpen ==
    /\ InitHeader
    /\ hdr.kind = "module"

NextOpen ==
    \/ ModuleFileRead
    \/ \E index \in 0..(Len(files) - 1) : ReadTag(index)

SpecOpen == InitOpen /\ [][NextOpen]_vars

\* The results of read_tag that are an Err of the crate.
ReadTagErrors ==
    {"ReadError", "NegativeBlockIndex", "DecompressionFailed", "BufferSizeOverflow",
     "IncorrectMagic", "IncorrectVersion", "InvalidTagSection"}

\* The entry of the last call is flagged invalid, or flagged for the hd1
\* file while none is open.
NotPresent ==
    \/ "INVALID" \in files[last.index + 1].data_offset_flags
    \/ /\ "USE_HD1" \in files[last.index + 1].data_offset_flags
       /\ ~module.hd1_open

\* C13: read_tag(index) returns Ok(None), with no I/O on either file and
\* the entry left unloaded, when the entry is flagged invalid or is flagged
\* for the hd1 file and none is open; in every other case it returns an
\* error or Ok(Some(tag_id)) of that entry, and Ok(Some(_)) only when the
\* entry is loaded afterwards.
C13_NotPresent ==
    last.op = "read_tag" =>
        /\ NotPresent =>
              /\ last.res = "Ok" /\ ~last.value.some
              /\ last.io = << >>
              /\ ~files[last.index + 1].is_loaded
        /\ ~NotPresent =>
              \/ last.res \in ReadTagErrors
              \/ last.res = "Ok" /\ last.value = Some(files[last.index + 1].tag_id)
        /\ (last.res = "Ok" /\ last.value.some) => files[last.index + 1].is_loaded

\* read_tag has handed back the id of an entry it loaded.
C13_Witness ==
    /\ last.op = "read_tag"
    /\ last.res = "Ok"
    /\ last.value.some
    /\ last.io # << >>
    /\ files[last.index + 1].is_loaded

-----------------------------------------------------------------------------
(* read_tag_from_id                                                         *)

\* The ids read_tag_from_id is called with.
GlobalIds == {-1, TagIdA, TagIdB}

\* The 0-based indices of the entries whose tag_id is global_id.
IndicesOfId(global_id) == { k \in 0..(Len(files) - 1) : files[k + 1].tag_id = global_id }

\* ModuleFile::read_tag gives Ok(None) for entry k.
NotPresentAt(k) ==
    \/ "INVALID" \in files[k + 1].data_offset_flags
    \/ "USE_HD1" \in files[k + 1].data_offset_flags /\ ~module.hd1_open

\* C14: read_tag_from_id(id) returns Some(k) only for the smallest index k
\* whose entry has tag_id = id, after that entry and no other has been
\* loaded through read_tag; it returns None and changes no entry when no
\* entry has the id, and None when read_tag reports the entry as not
\* present.
C14_FromId ==
    [][ \A id \in GlobalIds :
          ReadTagFromId(id) =>
            /\ last'.value.some =>
                 /\ IndicesOfId(id) # {}
                 /\ last'.value.v \in IndicesOfId(id)
                 /\ \A j \in IndicesOfId(id) : last'.value.v <= j
                 /\ files'[last'.value.v + 1].is_loaded
                 /\ \A j \in 1..Len(files) : j # last'.value.v + 1 => files'[j] = files[j]
                 /\ \E kinds \in KindChoices(files[last'.value.v + 1]) :
                        files' = [files EXCEPT ![last'.value.v + 1] =
                                     ModuleFile_read_tag(last'.value.v, kinds).entry]
            /\ IndicesOfId(id) = {} =>
                 /\ last'.res = "Ok" /\ ~last'.value.some
                 /\ files' = files
                 /\ reader_pos' = reader_pos
            /\ (IndicesOfId(id) # {}
                /\ \A k \in IndicesOfId(id) : \E j \in IndicesOfId(id) : j < k \/ NotPresentAt(k)) =>
                 /\ last'.res = "Ok" /\ ~last'.value.some
                 /\ files' = files ]_vars

\* read_tag_from_id has handed back the index of an entry that is not the
\* only one with its id.
C14_Witness ==
    /\ last.op = "read_tag_from_id"
    /\ last.value.some
    /\ files[last.value.v + 1].is_loaded
    /\ \E j \in 1..Len(files) :
          j # last.value.v + 1 /\ files[j].tag_id = files[last.value.v + 1].tag_id

-----------------------------------------------------------------------------
(* Isolation of entry loads                                                 *)

\* What a caller sees of a read_tag: what is handed back, the entry as the
\* call leaves it, the I/O and the decompress calls it made.
Observed(o) ==
    [entry |-> o.entry, res |-> o.res, value |-> o.value, reader |-> o.reader,
     io |-> o.io, kraken |-> o.kraken]

\* C15: entry-level failures are isolated.  A read_tag(i), whether it
\* succeeds or fails, changes entry i only: the module header, the block
\* table and every other entry stay as they were; and after a read_tag(i)
\* that failed, read_tag(j) on any other entry j gives what it would have
\* given had the failed call not been made.
C15_Isolated ==
    [][ last'.op = "read_tag" =>
          /\ blocks' = blocks
          /\ module' = module
          /\ Len(files') = Len(files)
          /\ \A j \in 1..Len(files) : j # last'.index + 1 => files'[j] = files[j]
          /\ last'.res # "Ok" =>
               \A j \in 1..Len(files) :
                  j # last'.index + 1 =>
                    \A kinds \in KindChoices(files[j]) :
                       Observed(ModuleFile_read_tag(j - 1, kinds))'
                           = Observed(ModuleFile_read_tag(j - 1, kinds)) ]_vars

\* An entry has been read after the read of the other entry failed and left
\* its buffer behind.
C15_Witness ==
    /\ last.op = "read_tag"
    /\ last.res = "Ok"
    /\ last.io # << >>
    /\ \E j \in 1..Len(files) :
          /\ j # last.index + 1
          /\ files[j].data_stream.present
          /\ ~files[j].is_loaded

-----------------------------------------------------------------------------
(* Where TagFile::read leaves the cursor                                    *)

\* The cells the header and the tables of the tag file read take.
TagCellsRead ==
    Len(TagHeaderFields)
    + HeaderField(hdr.stream, "datablock_count") * TagDataBlockCells
    + HeaderField(hdr.stream, "tagstruct_count") * TagStructCells

\* C16: after every successful TagFile::read the cursor of the buffer is at
\* the absolute position header.header_size, whatever the table counts,
\* whether the header and the tables took fewer or more cells than that.
C16_CursorAtHeaderSize ==
    (hdr.kind = "tag" /\ hdr.res = "Ok") =>
        hdr.pos = HeaderField(hdr.stream, "header_size")

\* A tag file has been read whose tables reach past its header_size.
C16_Witness ==
    /\ hdr.kind = "tag"
    /\ hdr.res = "Ok"
    /\ TagCellsRead > HeaderField(hdr.stream, "header_size")
    /\ HeaderField(hdr.stream, "tagstruct_count") > 0

\* A tag file has been read whose header_size lies behind its tables.
C16_Padded ==
    /\ hdr.kind = "tag"
    /\ hdr.res = "Ok"
    /\ TagCellsRead < HeaderField(hdr.stream, "header_size")

-----------------------------------------------------------------------------
(* The root struct of read_metadata                                         *)

\* The positions of the struct table of the entry of the last call that
\* hold a struct of kind MainStruct.
MainStructs ==
    { k \in 1..Len(files[last.index + 1].tag_info.struct_definitions) :
        files[last.index + 1].tag_info.struct_definitions[k].struct_type = MainStruct }

\* C17: read_metadata on a loaded tag whose struct table holds no struct of
\* kind MainStruct fails with MainStructNotFound and reads no field into the
\* caller's structure; when the table holds root structs, the first in
\* table order is the one used.
C17_MainStruct ==
    (/\ last.op = "read_metadata"
     /\ files[last.index + 1].is_loaded
     /\ files[last.index + 1].tag_info.present) =>
        /\ MainStructs = {} =>
              /\ last.res = "MainStructNotFound"
              /\ ~target.touched
              /\ last.used = << >>
        /\ MainStructs # {} =>
              /\ last.res # "MainStructNotFound"
              /\ last.used # << >>
              /\ \E k \in MainStructs :
                    /\ \A j \in MainStructs : k <= j
                    /\ last.used[1] =
                         files[last.index + 1].tag_info.struct_definitions[k].target_index

\* A structure has been read from a tag with two root structs that point
\* at different datablocks.
C17_Witness ==
    /\ last.op = "read_metadata"
    /\ last.res = "Ok"
    /\ target.touched
    /\ Cardinality(MainStructs) = 2
    /\ \E j, k \in MainStructs :
          files[last.index + 1].tag_info.struct_definitions[j].target_index
              # files[last.index + 1].tag_info.struct_definitions[k].target_index

\* MainStructNotFound has been returned for a loaded tag with structs.
C17_NotFound ==
    /\ last.op = "read_metadata"
    /\ last.res = "MainStructNotFound"
    /\ files[last.index + 1].tag_info.struct_definitions # << >>

-----------------------------------------------------------------------------
(* The lengths of the tables after ModuleFile::read                         *)

\* C18: after every successful ModuleFile::read, a read on a ModuleFile
\* that has been read before included, files holds exactly file_count
\* entries, resource_indices exactly resource_count and blocks exactly
\* block_count.
C18_TableLengths ==
    (hdr.kind = "module" /\ hdr.res = "Ok") =>
        /\ Len(files) = ModuleField(hdr.stream, "file_count")
        /\ Len(hdr.resource_indices) = ModuleField(hdr.stream, "resource_count")
        /\ Len(blocks) = ModuleField(hdr.stream, "block_count")

\* A module with file entries, resource indices and blocks has been read a
\* second time, with success.
C18_Witness ==
    /\ hdr.kind = "module"
    /\ hdr.res = "Ok"
    /\ hdr.reads = 2
    /\ ModuleField(hdr.stream, "file_count") > 0
    /\ ModuleField(hdr.stream, "resource_count") > 0
    /\ ModuleField(hdr.stream, "block_count") > 0

\* What holds of the tables: resource_indices and blocks are replaced by
\* every successful read, files grows by file_count entries with each.
TablesAfterReads ==
    (hdr.kind = "module" /\ hdr.res = "Ok") =>
        /\ Len(files) = hdr.reads * ModuleField(hdr.stream, "file_count")
        /\ Len(hdr.resource_indices) = ModuleField(hdr.stream, "resource_count")
        /\ Len(blocks) = ModuleField(hdr.stream, "block_count")

-----------------------------------------------------------------------------
(* The alignment of file_data_offset                                        *)

MaxPages == 2        \* stream positions are taken from pages 0..MaxPages

AlignWindow == 12    \* ... up to this far from either end of a page

\* The positions the reader can stand at after the block table: near the
\* start and near the end of a page.  (A position is a file offset, far
\* from the end of u64: the arithmetic of the alignment does not wrap.)
StreamPositions ==
    { page * PAGE_SIZE + d : page \in 0..MaxPages, d \in 0..AlignWindow }
    \cup { (page + 1) * PAGE_SIZE - d : page \in 0..MaxPages, d \in 1..AlignWindow }

InitAlign ==
    /\ files = << >>
    /\ blocks = << >>
    /\ module = NewModule
    /\ reader_pos = [module |-> 0, hd1 |-> 0]
    /\ last = NoCall
    /\ target = DefaultTarget
    /\ hdr = NoHeaderRun
    /\ rs = NoResolverRun
    /\ \E p \in StreamPositions :
          run = [fn |-> "align", res |-> "none", stream_position |-> p]

\* The end of ModuleFile::read: the reader stands at stream_position, is
\* moved to the aligned offset, and its position becomes file_data_offset.
Align ==
    /\ run.fn = "align"
    /\ run.res = "none"
    /\ run' = [run EXCEPT !.res = "Ok"]
    /\ reader_pos' = [reader_pos EXCEPT !.module = AlignedOffset(run.stream_position)]
    /\ last' = [NoCall EXCEPT !.op = "read"]
    /\ UNCHANGED <<files, blocks, module, target, hdr, rs>>

NextAlign == Align

SpecAlign == InitAlign /\ [][NextAlign]_vars

\* C19: file_data_offset is a multiple of 4096, and it is the least
\* multiple of 4096 strictly greater than the position p reached after the
\* block table, (p div 4096 + 1) * 4096; a position that is already
\* aligned is still advanced by a full 4096.
C19_NextPage ==
    (run.fn = "align" /\ run.res = "Ok") =>
        /\ reader_pos.module % 4096 = 0
        /\ reader_pos.module > run.stream_position
        /\ reader_pos.module - 4096 <= run.stream_position
        /\ \A k \in 0..(MaxPages + 2) :
              4096 * k > run.stream_position => reader_pos.module <= 4096 * k
        /\ reader_pos.module = (run.stream_position \div 4096 + 1) * 4096
        /\ run.stream_position % 4096 = 0 =>
              reader_pos.module = run.stream_position + 4096

\* A position on a page boundary other than 0 has been aligned.
C19_Witness ==
    /\ run.fn = "align"
    /\ run.res = "Ok"
    /\ run.stream_position > 0
    /\ run.stream_position % 4096 = 0
    /\ reader_pos.module = run.stream_position + 4096

\* A position inside a page has been aligned.
C19_InsidePage ==
    /\ run.fn = "align"
    /\ run.res = "Ok"
    /\ run.stream_position % 4096 = 4095
    /\ reader_pos.module = run.stream_position + 1

-----------------------------------------------------------------------------
(* The offset field of a file entry                                         *)

MaxHighBits == 7     \* the bits above the offset range over 0..MaxHighBits

MaxLowOffset == 6    \* the offsets range over 0..MaxLowOffset and the largest one

\* The raw values of the offset field: an offset in the low bits, flag bits
\* above them.
RawOffsets ==
    { high * OFFSET_RADIX + low :
        high \in 0..MaxHighBits, low \in (0..MaxLowOffset) \cup {OFFSET_RADIX - 1} }

\* The row of a file entry whose offset field holds v.
EntryRowWith(v) == [EntryRow EXCEPT ![7] = v]

InitOffset ==
    /\ files = << >>
    /\ blocks = << >>
    /\ module = NewModule
    /\ reader_pos = [module |-> 0, hd1 |-> 0]
    /\ last = NoCall
    /\ target = DefaultTarget
    /\ hdr = NoHeaderRun
    /\ rs = NoResolverRun
    /\ \E v \in RawOffsets :
          run = [fn |-> "entry_read", res |-> "none", v |-> v]

\* file.read(&mut reader) on a default entry, pushed to files.
EntryRead ==
    /\ run.fn = "entry_read"
    /\ run.res = "none"
    /\ run' = [run EXCEPT !.res = "Ok"]
    /\ files' = Append(files, ModuleFileEntry_read(EntryRowWith(run.v)))
    /\ UNCHANGED <<blocks, module, reader_pos, last, target, hdr, rs>>

NextOffset == EntryRead

SpecOffset == InitOffset /\ [][NextOffset]_vars

\* C20: for every raw value v of the offset field of a file entry, the
\* parsed data_offset is v mod 2^48 and data_offset_flags is decoded from
\* v div 2^48; USE_HD1 is set exactly when bit 48 of v is set.
C20_OffsetAndFlags ==
    (run.fn = "entry_read" /\ run.res = "Ok") =>
        /\ files[1].data_offset = run.v % OFFSET_RADIX
        /\ "USE_HD1" \in files[1].data_offset_flags
              <=> (run.v \div OFFSET_RADIX) % 2 = 1
        /\ "USE_HD2" \in files[1].data_offset_flags
              <=> (run.v \div (2 * OFFSET_RADIX)) % 2 = 1

\* An entry whose offset field has bit 48 set has been parsed.
C20_Witness ==
    /\ run.fn = "entry_read"
    /\ run.res = "Ok"
    /\ (run.v \div OFFSET_RADIX) % 2 = 1
    /\ run.v % OFFSET_RADIX > 0

\* What holds of the parsed entry: the offset is the low bits of v, and no
\* flag is ever set.
FlagsFromMaskedOffset ==
    (run.fn = "entry_read" /\ run.res = "Ok") =>
        /\ files[1].data_offset = run.v % OFFSET_RADIX
        /\ files[1].data_offset_flags = {}

-----------------------------------------------------------------------------
(* The stream and the base offset ModuleFile::read_tag selects              *)

\* The values of file_data_offset and hd1_delta: multiples of a page for
\* the one, nothing, a few cells and whole pages for the other.
MaxBasePages == 2

DataOffsets == { page * PAGE_SIZE : page \in 1..MaxBasePages }

Hd1Deltas == {0, Hd1Base} \cup { page * PAGE_SIZE : page \in 1..(MaxBasePages + 1) }

\* A build checks its arithmetic for overflow (the dev profile) or lets it
\* wrap around (the release profile).
InitBase ==
    /\ files = << >>
    /\ blocks = << >>
    /\ module = NewModule
    /\ reader_pos = [module |-> 0, hd1 |-> 0]
    /\ last = NoCall
    /\ target = DefaultTarget
    /\ hdr = NoHeaderRun
    /\ rs = NoResolverRun
    /\ \E version \in ModuleVersions, data_offset \in DataOffsets, hd1_delta \in Hd1Deltas,
          flags \in SUBSET {"USE_HD1", "USE_HD2", "INVALID"},
          hd1_open \in BOOLEAN, overflow_checks \in BOOLEAN :
          run = [fn |-> "read_tag_base", res |-> "none", version |-> version,
                 file_data_offset |-> data_offset, hd1_delta |-> hd1_delta,
                 flags |-> flags, hd1_open |-> hd1_open,
                 overflow_checks |-> overflow_checks, reader |-> "none", offset |-> 0]

\* ModuleFile::read_tag of r up to its call of file.read_tag: "Load" with
\* the reader and the offset handed over, "None" for Ok(None), "Panic" for
\* the subtraction that overflows in a build that checks it.
SelectedBase(r) ==
    IF "INVALID" \in r.flags THEN [r EXCEPT !.res = "None"]
    ELSE IF "USE_HD1" \in r.flags
    THEN IF r.hd1_open
         THEN IF r.hd1_delta > r.file_data_offset /\ r.overflow_checks
              THEN [r EXCEPT !.res = "Panic"]
              ELSE [r EXCEPT !.res = "Load", !.reader = "hd1",
                             !.offset = Hd1Offset(r.version, r.file_data_offset,
                                                  r.hd1_delta)]
         ELSE [r EXCEPT !.res = "None"]
    ELSE [r EXCEPT !.res = "Load", !.reader = "module", !.offset = r.file_data_offset]

\* module.read_tag(index), module_file being open.
SelectBase ==
    /\ run.fn = "read_tag_base"
    /\ run.res = "none"
    /\ run' = SelectedBase(run)
    /\ UNCHANGED <<files, blocks, module, reader_pos, last, target, hdr, rs>>

NextBase == SelectBase

SpecBase == InitBase /\ [][NextBase]_vars

\* C21: for an entry flagged USE_HD1 while hd1_file is open, the base
\* offset handed to the load of the entry is hd1_delta for every module
\* version up to Season3, whatever hd1_delta and file_data_offset are,
\* hd1_delta > file_data_offset included, and file_data_offset - hd1_delta
\* for later versions; for an entry not flagged USE_HD1 the base is
\* file_data_offset and the stream is module_file.
C21_BaseOffset ==
    (/\ run.fn = "read_tag_base"
     /\ run.res # "none"
     /\ "INVALID" \notin run.flags) =>
        /\ ("USE_HD1" \in run.flags /\ run.hd1_open) =>
              /\ run.res = "Load"
              /\ run.reader = "hd1"
              /\ run.offset = IF run.version <= 53 THEN run.hd1_delta
                              ELSE run.file_data_offset - run.hd1_delta
        /\ "USE_HD1" \notin run.flags =>
              /\ run.res = "Load"
              /\ run.reader = "module"
              /\ run.offset = run.file_data_offset

\* An entry flagged USE_HD1 of a module whose hd1_delta is larger than
\* file_data_offset has been read with hd1_file open.
C21_Witness ==
    /\ run.fn = "read_tag_base"
    /\ run.res # "none"
    /\ run.flags = {"USE_HD1"}
    /\ run.hd1_open
    /\ run.hd1_delta > run.file_data_offset

\* What holds: the claim in every build that lets the subtraction wrap, and
\* in every build for hd1_delta <= file_data_offset.
BaseUnlessOverflow ==
    (run.overflow_checks /\ run.hd1_delta > run.file_data_offset) \/ C21_BaseOffset

-----------------------------------------------------------------------------
(* Where read_metadata takes the cells of a datablock from                  *)

\* The datablock of the entry of the last call that the k-th lookup of the
\* call used.
UsedBlock(k) == files[last.index + 1].tag_info.datablock_definitions[last.used[k] + 1]

\* C22: datablock offsets are absolute.  When read_metadata resolves the
\* root structure and its block field, the cells used for a datablock d
\* are those at [d.offset, d.offset + d.entry_size) of the decompressed
\* buffer of the entry, counted from the start of the buffer, not from
\* header_size and not from the offset of the root datablock.
C22_AbsoluteOffsets ==
    (last.op = "read_metadata" /\ last.res = "Ok") =>
        /\ target.leaf = CellOr(files[last.index + 1].data_stream.buf,
                                UsedBlock(1).offset + RootLeafOffset)
        /\ (Len(last.used) > 1 /\ target.elements # << >>) =>
              target.elements[1] = CellOr(files[last.index + 1].data_stream.buf,
                                          UsedBlock(2).offset + ElemLeafOffset)

\* A root structure and the elements of its block field have been read
\* from a tag whose header takes cells of the buffer.
C22_Witness ==
    /\ last.op = "read_metadata"
    /\ last.res = "Ok"
    /\ Len(last.used) > 1
    /\ target.elements # << >>
    /\ files[last.index + 1].tag_info.header_size > 0

\* What holds: the root is read at header_size + d.offset, and the
\* elements at header_size + the offset of the root datablock + d.offset.
OffsetsFromHeaderAndRoot ==
    (last.op = "read_metadata" /\ last.res = "Ok") =>
        /\ target.leaf = CellOr(files[last.index + 1].data_stream.buf,
                                files[last.index + 1].tag_info.header_size
                                + UsedBlock(1).offset + RootLeafOffset)
        /\ (Len(last.used) > 1 /\ target.elements # << >>) =>
              target.elements[1] = CellOr(files[last.index + 1].data_stream.buf,
                                          files[last.index + 1].tag_info.header_size
                                          + UsedBlock(1).offset
                                          + UsedBlock(2).offset + ElemLeafOffset)

\* ... and a structure has been read whose root datablock is not at 0.
RootNotAtZero ==
    /\ last.op = "read_metadata"
    /\ last.res = "Ok"
    /\ UsedBlock(1).offset > 0

-----------------------------------------------------------------------------
(* Nested block fields: FieldBlock::load_blocks on elements that have a     *)
(* block field themselves.  The elements are of the root shape (a leaf and  *)
(* a FieldBlock of the same shape).                                         *)

MaxNested == 2      \* an array of elements has at most MaxNested elements

MaxLevel == 3       \* the nesting a stack can take before it overflows

\* The lookup of one load_blocks call: the owning element (level and index
\* in its array, -1 for the root), the key, the struct entry found (0: none).
Lookup(level, elem, current_block, collection_offset, k) ==
    [level |-> level, elem |-> elem, field_block |-> current_block,
     field_offset |-> collection_offset, entry |-> k]

\* The source index an element passes to load_field_blocks.
NestedSource_of_parent(current_block, bs) == current_block

\* The source index an element passes to load_field_blocks:
\* block_struct.target_index.
NestedSource(current_block, bs) == bs.target_index

\* The base an element's field offsets are added to: load_field_blocks takes
\* it as adjusted_base, and the call in load_blocks does not hand one over.
NestedBase(i) == 0

RECURSIVE NestedLoad(_, _, _, _, _, _, _, _)
RECURSIVE NestedNext(_, _, _, _, _, _, _, _, _, _, _)

\* The loop of load_blocks over elements i .. n - 1 of the array in
\* datablock bs.target_index once element i has been resolved as r.
NestedNext(level, i, n, bbuf, cb, bs, buf, structs, dblocks, acc, r) ==
    IF r.res # "Ok" THEN [res |-> r.res, lookups |-> acc \o r.lookups]
    ELSE IF i + 1 >= n THEN [res |-> "Ok", lookups |-> acc \o r.lookups]
    ELSE IF RootSize * i + RootSize > Len(bbuf)
    THEN [res |-> "ReadError", lookups |-> acc \o r.lookups]
    ELSE NestedNext(level, i + 1, n, bbuf, cb, bs, buf, structs, dblocks, acc \o r.lookups,
             NestedLoad(level, i + 1, bbuf[RootSize * i + RootBlockOffset + FieldBlockCells],
                        NestedSource(cb, bs), NestedBase(i + 1) + RootBlockOffset,
                        buf, structs, dblocks))

\* load_blocks on the datablock b: block_buffer, then the elements, the
\* first one read at 0.
NestedFromBlock(level, n, cb, bs, b, buf, structs, dblocks, lk) ==
    IF b.offset + b.entry_size > Len(buf) THEN [res |-> "ReadError", lookups |-> << lk >>]
    ELSE IF RootSize > b.entry_size THEN [res |-> "ReadError", lookups |-> << lk >>]
    ELSE NestedNext(level + 1, 0, n, Slice(buf, b.offset, b.offset + b.entry_size),
                    cb, bs, buf, structs, dblocks, << lk >>,
                    NestedLoad(level + 1, 0, buf[b.offset + RootBlockOffset + FieldBlockCells],
                               NestedSource(cb, bs), NestedBase(0) + RootBlockOffset,
                               buf, structs, dblocks))

\* load_blocks once structs.iter().find(..) has given position k (0: None).
NestedFound(level, elem, size, cb, co, buf, structs, dblocks, k) ==
    IF k = 0 THEN [res |-> "Ok", lookups |-> << Lookup(level, elem, cb, co, 0) >>]
    ELSE IF structs[k].target_index < 0 \/ structs[k].target_index >= Len(dblocks)
    THEN [res |-> "Panic", lookups |-> << Lookup(level, elem, cb, co, k) >>]
    ELSE NestedFromBlock(level, size, cb, structs[k], dblocks[structs[k].target_index + 1],
                         buf, structs, dblocks, Lookup(level, elem, cb, co, k))

\* FieldBlock::load_blocks(current_block, collection_offset, ..) on the block
\* field, of declared count size, of element elem at nesting level level.
NestedLoad(level, elem, size, cb, co, buf, structs, dblocks) ==
    IF size = 0 THEN [res |-> "Ok", lookups |-> << >>]
    ELSE IF level >= MaxLevel THEN [res |-> "StackOverflow", lookups |-> << >>]
    ELSE NestedFound(level, elem, size, cb, co, buf, structs, dblocks,
                     FirstIndex(structs, LAMBDA s :
                         /\ s.field_block = cb
                         /\ s.field_offset = co
                         /\ s.target_index # -1))

\* One element of the root shape: leaf, type_info, unknown, count.
Node(leaf, count) == << leaf, 0, 0, count >>

\* The struct entries the tables are made of: the root, the arrays of the
\* fields of datablocks 0, 1 and 2, and entries at the offsets a field
\* would have were the index of its element added to its key.
NestedStructs ==
    << [struct_type |-> MainStruct, target_index |-> 0, field_block |-> -1, field_offset |-> 0],
       [struct_type |-> TagBlock, target_index |-> 1, field_block |-> 0,
        field_offset |-> RootBlockOffset],
       [struct_type |-> TagBlock, target_index |-> 3, field_block |-> 1,
        field_offset |-> RootSize + RootBlockOffset],
       [struct_type |-> TagBlock, target_index |-> 2, field_block |-> 1,
        field_offset |-> RootBlockOffset],
       [struct_type |-> TagBlock, target_index |-> 3, field_block |-> 2,
        field_offset |-> RootBlockOffset] >>

\* The sub-tables of NestedStructs, in its order.
RECURSIVE Picked(_, _)
Picked(s, keep) ==
    IF s = << >> THEN << >>
    ELSE (IF Len(s) \in keep THEN Picked(SubSeq(s, 1, Len(s) - 1), keep) \o << s[Len(s)] >>
          ELSE Picked(SubSeq(s, 1, Len(s) - 1), keep))

\* Datablock 0 holds the root, 1 its elements, 2 theirs, 3 those of these.
NestedBlocks(n) ==
    [d \in 1..4 |-> [entry_size |-> IF d = 1 THEN RootSize ELSE n * RootSize,
                     section_type |-> 1,
                     offset |-> IF d = 1 THEN 0 ELSE RootSize + (d - 2) * n * RootSize]]

\* The tag data: the root with count c0, n elements with count c1 each
\* but the last, which has c1last, n with c2, n with none.
NestedData(n, c0, c1, c1last, c2) ==
    Node(70, c0)
    \o Concat([i \in 1..n |-> Node(70 + i, IF i = n THEN c1last ELSE c1)])
    \o Concat([i \in 1..n |-> Node(80 + i, c2)])
    \o Concat([i \in 1..n |-> Node(90 + i, 0)])

InitNested ==
    /\ files = << >>
    /\ blocks = << >>
    /\ module = NewModule
    /\ reader_pos = [module |-> 0, hd1 |-> 0]
    /\ last = NoCall
    /\ target = DefaultTarget
    /\ hdr = NoHeaderRun
    /\ rs = NoResolverRun
    /\ \E n \in 1..MaxNested, keep \in SUBSET (1..Len(NestedStructs)), root \in {0, 1} :
          \E c0 \in 0..n, c1 \in 0..n, c1last \in 0..n, c2 \in 0..n :
             run = [fn |-> "load_field_blocks", res |-> "none", root |-> root,
                    buf |-> NestedData(n, c0, c1, c1last, c2),
                    structs |-> Picked(NestedStructs, keep),
                    dblocks |-> NestedBlocks(n), lookups |-> << >>]

\* struct_type.load_field_blocks(main_struct.target_index, 0, ..) of
\* read_metadata, the root having been read.
LoadFieldBlocks ==
    /\ run.fn = "load_field_blocks"
    /\ run.res = "none"
    /\ run' = [run EXCEPT
                 !.res = NestedLoad(0, -1, run.buf[RootBlockOffset + FieldBlockCells],
                                    run.root, 0 + RootBlockOffset, run.buf, run.structs,
                                    run.dblocks).res,
                 !.lookups = NestedLoad(0, -1, run.buf[RootBlockOffset + FieldBlockCells],
                                        run.root, 0 + RootBlockOffset, run.buf, run.structs,
                                        run.dblocks).lookups]
    /\ UNCHANGED <<files, blocks, module, reader_pos, last, target, hdr, rs>>

NextNested == LoadFieldBlocks

SpecNested == InitNested /\ [][NextNested]_vars

\* The lookup that resolved the array the element of lookup j lives in: the
\* last lookup before j of the level above.
ParentLookup(j) ==
    CHOOSE p \in 1..(j - 1) :
        /\ run.lookups[p].level = run.lookups[j].level - 1
        /\ \A q \in (p + 1)..(j - 1) : run.lookups[q].level >= run.lookups[j].level

\* C23: at every nesting level, a block field declared at relative offset o
\* inside an element of an array stored in datablock t is looked up in the
\* struct table with the key (field_block = t, field_offset = 0 + o),
\* whatever the index i of the element; so all elements of one array
\* resolve a nested block field through the same struct entry, and the
\* fields of the root structure use the key (root target_index, 0 + o).
C23_NestedKeys ==
    (run.fn = "load_field_blocks" /\ run.res # "none") =>
        \A j \in 1..Len(run.lookups) :
            IF run.lookups[j].level = 0
            THEN /\ run.lookups[j].field_block = run.root
                 /\ run.lookups[j].field_offset = 0 + RootBlockOffset
            ELSE /\ run.lookups[j].field_block =
                        run.structs[run.lookups[ParentLookup(j)].entry].target_index
                 /\ run.lookups[j].field_offset = 0 + RootBlockOffset
                 /\ \A i \in 1..Len(run.lookups) :
                       (/\ run.lookups[i].level = run.lookups[j].level
                        /\ ParentLookup(i) = ParentLookup(j)) =>
                           run.lookups[i].entry = run.lookups[j].entry

\* Two elements of one array, two levels below the root, have resolved
\* their block field, both through the same struct entry.
C23_Witness ==
    /\ run.fn = "load_field_blocks"
    /\ run.res = "Ok"
    /\ \E i, j \in 1..Len(run.lookups) :
          /\ run.lookups[i].level = 2
          /\ run.lookups[j].level = 2
          /\ run.lookups[i].elem = 0
          /\ run.lookups[j].elem = 1
          /\ run.lookups[i].entry # 0
          /\ ParentLookup(i) = ParentLookup(j)

-----------------------------------------------------------------------------
(* The paths ModuleFile::read gives the entries of a module without a       *)
(* string table                                                             *)

MaxNamed == 3       \* a module of the path assignment has 0..MaxNamed resource entries

MaxSpanStart == 2   \* the resource span of entry 0 starts at 0..MaxSpanStart

\* The name an entry has before read assigns one.  The sources do not hold
\* the declaration of tag_name; get_tag_path compares it with "-1", the
\* text of an absent tag_id.
InitialName(tag_id) == ToString(tag_id)

\* The entries of a module: entry 0, of id root_id, and m resource entries
\* without an id of their own.  Flat, all are resources of entry 0, whose
\* span starts at ri; nested, each is the one resource of the entry before.
NamedTable(m, nested, ri, root_id) ==
    [i \in 1..(m + 1) |->
        IF i = 1
        THEN PathEntry(InitialName(root_id), root_id, -1, ri,
                       IF nested THEN Min(m, 1) ELSE m)
        ELSE PathEntry(InitialName(-1), -1, IF nested THEN i - 2 ELSE 0,
                       IF nested /\ i <= m THEN ri + i - 1 ELSE 0,
                       IF nested /\ i <= m THEN 1 ELSE 0)]

\* The resource-index table of the file: ri indices of other spans, then
\* the resource entries, in table order or in reverse.
NamedIndices(m, ri, reversed) ==
    [k \in 1..ri |-> 0] \o [k \in 1..m |-> IF reversed THEN m + 1 - k ELSE k]

InitNames ==
    /\ files = << >>
    /\ blocks = << >>
    /\ module = NewModule
    /\ reader_pos = [module |-> 0, hd1 |-> 0]
    /\ last = NoCall
    /\ target = DefaultTarget
    /\ hdr = NoHeaderRun
    /\ rs = NoResolverRun
    /\ \E m \in 0..MaxNamed, nested \in BOOLEAN, ri \in 0..MaxSpanStart,
          reversed \in BOOLEAN,
          root_id \in {-1, TagIdA, TagIdB} :
          run = [fn |-> "tag_paths", res |-> "none",
                 files |-> NamedTable(m, nested, ri, root_id),
                 on_disk |-> NamedIndices(m, ri, reversed /\ ~nested),
                 resource_indices |-> << >>, paths |-> << >>]

\* (0..self.files.len()).map(|i| self.get_tag_path(i, 0)).collect(): the
\* paths of entries i .. n - 1 after those of acc, up to the first failure.
RECURSIVE TagPaths(_, _, _, _)

TagPathsNext(fs, ris, i, acc, r) ==
    IF r.res # "Ok" THEN [res |-> r.res, paths |-> << >>]
    ELSE TagPaths(fs, ris, i + 1, Append(acc, r.path))

TagPaths(fs, ris, i, acc) ==
    IF i >= Len(fs) THEN [res |-> "Ok", paths |-> acc]
    ELSE TagPathsNext(fs, ris, i, acc, get_tag_path(fs, ris, i, 0))

\* The path assignment of ModuleFile::read: it comes before the resource
\* indices are read from the file, so self.resource_indices is what the
\* ModuleFile held before the call.
AssignTagPaths ==
    /\ run.fn = "tag_paths"
    /\ run.res = "none"
    /\ run' = [run EXCEPT !.res = TagPaths(run.files, run.resource_indices, 0, << >>).res,
                          !.paths = TagPaths(run.files, run.resource_indices, 0, << >>).paths]
    /\ UNCHANGED <<files, blocks, module, reader_pos, last, target, hdr, rs>>

NextNames == AssignTagPaths

SpecNames == InitNames /\ [][NextNames]_vars

\* The text of a path: group, the name before the first '.', and the
\* ordinals of its "[k:resource]" parts.
Rendered(path) ==
    << path.tag_group,
       IF path.kind = "named" THEN path.tag_name ELSE ToString(path.tag_id),
       path.ords >>

\* The number of entries before entry i (0-based) in the resource span of
\* its parent, in the resource-index table of the file.
RECURSIVE Ordinal(_, _, _)
Ordinal(span, i, n) ==
    IF span = << >> \/ Head(span) = i THEN n ELSE Ordinal(Tail(span), i, n + 1)

SpanOnDisk(parent) ==
    Slice(run.on_disk, parent.resource_index, parent.resource_index + parent.resource_count)

\* C24: for a module without a string table, ModuleFile::read gives every
\* entry with tag_id -1 and a parent the path "<parent path>[k:resource]",
\* k being the number of entries before it in the resource span of its
\* parent, and every entry with a tag_id the path "<group>/<tag_id>.<group>".
C24_AssignedPaths ==
    (run.fn = "tag_paths" /\ run.res # "none") =>
        /\ run.res = "Ok"
        /\ Len(run.paths) = Len(run.files)
        /\ \A i \in 1..Len(run.files) :
              /\ run.files[i].tag_id # -1 =>
                    Rendered(run.paths[i])
                        = << run.files[i].tag_group, ToString(run.files[i].tag_id), << >> >>
              /\ (run.files[i].tag_id = -1 /\ run.files[i].parent_index # -1) =>
                    Rendered(run.paths[i])
                        = [Rendered(run.paths[run.files[i].parent_index + 1]) EXCEPT
                             ![3] = Append(@, Ordinal(SpanOnDisk(
                                       run.files[run.files[i].parent_index + 1]), i - 1, 0))]

\* The paths of a module with resource entries have been asked for.
C24_Witness ==
    /\ run.fn = "tag_paths"
    /\ run.res # "none"
    /\ \E i \in 1..Len(run.files) :
          /\ run.files[i].tag_id = -1
          /\ run.files[i].parent_index # -1
          /\ run.files[run.files[i].parent_index + 1].tag_id # -1

\* What holds: the paths are as claimed in a module none of whose entries
\* is a resource of another, and the slice of the empty resource_indices
\* panics in every module that has a resource entry.
PathsBeforeIndices ==
    (run.fn = "tag_paths" /\ run.res # "none") =>
        IF \E i \in 1..Len(run.files) : run.files[i].parent_index # -1
        THEN run.res = "Panic"
        ELSE C24_AssignedPaths

-----------------------------------------------------------------------------
(* Where the cells of a block are read from                                 *)

\* The cells at the block's own compressed_offset, counted from base.
OwnCells(b, base) == FileSlice("module", base + b.compressed_offset, b.compressed_size)

\* The cells the assembled buffer of e holds at the destination of block k,
\* where no later block has overwritten them, are those of cells.
HoldsCells(e, k, cells) ==
    \A p \in 0..(Len(e.data_stream.buf) - 1) :
        (k \in Covering(e, p) /\ \A j \in Covering(e, p) : j <= k) =>
            e.data_stream.buf[p + 1] = cells[p - blocks[k].decompressed_offset + 1]

\* The input of every block of e is cells(k): what decompress was called on
\* for a compressed block, what the buffer holds for a raw one.
InputsAt(e, base) ==
    \A k \in BlockRange(e) :
        IF blocks[k].is_compressed
        THEN last.kraken[Cardinality({ j \in (e.block_index + 1)..k :
                                         blocks[j].is_compressed })].input
                 = OwnCells(blocks[k], base)
        ELSE HoldsCells(e, k, OwnCells(blocks[k], base))

\* C25: in multi-block assembly the input of each block is the
\* compressed_size cells at the block's own compressed_offset, counted from
\* the file data of the module, so an entry whose blocks are not stored one
\* after the other in table order is still assembled from each block's own
\* cells.
C25_OwnOffset ==
    (Assembled /\ files[last.index + 1].block_count >= 1) =>
        InputsAt(files[last.index + 1], file_data_offset)

\* An entry has been assembled from two blocks that the file stores in the
\* reverse of their table order.
C25_Witness ==
    /\ Assembled
    /\ files[last.index + 1].block_count = 2
    /\ files[last.index + 1].block_index = 0
    /\ blocks[2].compressed_offset < blocks[1].compressed_offset

\* The same with compressed_offset counted from the data of the entry.
OwnOffsetInEntry ==
    (Assembled /\ files[last.index + 1].block_count >= 1) =>
        InputsAt(files[last.index + 1], FileOffset(files[last.index + 1]))

-----------------------------------------------------------------------------
(* Blocks whose destinations overlap                                        *)

\* The blocks of e are blocks of the table, their destinations lie inside
\* the buffer and the file holds their cells.
WellPlaced(e) ==
    /\ e.block_index >= 0
    /\ e.block_index + e.block_count <= Len(blocks)
    /\ \A k \in BlockRange(e) :
          /\ blocks[k].decompressed_offset >= 0
          /\ blocks[k].decompressed_offset + SegmentLen(blocks[k])
                 <= e.total_uncompressed_size
    /\ CanRead("module", FileOffset(e),
               SumOver(CompressedLen, e.block_index + 1, e.block_index + e.block_count))

\* Every decompress call of the last read_tag filled its buffer.
Decompressed ==
    \A j \in 1..Len(last.kraken) :
        last.kraken[j].res = "Ok" /\ Len(last.kraken[j].out) = last.kraken[j].size

\* The buffer of e holds, where blocks overlap, the cells of the latest of
\* them, and 0 where there is no block.
LaterBlockWins(e, buf) ==
    \A p \in 0..(Len(buf) - 1) :
        /\ Covering(e, p) = {} => buf[p + 1] = 0
        /\ \A j, k \in Covering(e, p) :
              (j < k /\ \A n \in Covering(e, p) : n <= k) =>
                  buf[p + 1] = SegmentOf(e, k, last.kraken)
                                   [p - blocks[k].decompressed_offset + 1]

\* C26: assembly does not check the layout of the blocks: when the
\* destinations of two blocks of an entry overlap inside the buffer,
\* read_tag assembles the buffer all the same (a resource is loaded, a tag
\* goes on to be parsed), the cells in the overlap are those of the block
\* that comes later in the table, and the cells no block covers are 0.
C26_Overlap ==
    (/\ Loading
     /\ files[last.index + 1].block_count >= 1
     /\ WellPlaced(files[last.index + 1])
     /\ Overlapping(blocks, files[last.index + 1].block_index + 1,
                    files[last.index + 1].block_index + files[last.index + 1].block_count)
     /\ Decompressed)
    => /\ Assembled
       /\ files[last.index + 1].data_stream.present
       /\ last.res = IF files[last.index + 1].tag_id = -1 THEN "Ok"
                     ELSE TagFile_read(files[last.index + 1].data_stream.buf).res
       /\ files[last.index + 1].tag_id = -1 => files[last.index + 1].is_loaded
       /\ LaterBlockWins(files[last.index + 1], files[last.index + 1].data_stream.buf)

\* A resource made of two overlapping blocks has been loaded into a buffer
\* that has a cell in the overlap and a cell outside every block.
C26_Witness ==
    /\ Loading
    /\ last.res = "Ok"
    /\ files[last.index + 1].tag_id = -1
    /\ files[last.index + 1].is_loaded
    /\ Overlapping(blocks, files[last.index + 1].block_index + 1,
                   files[last.index + 1].block_index + files[last.index + 1].block_count)
    /\ \E p, q \in 0..(files[last.index + 1].total_uncompressed_size - 1) :
          /\ Cardinality(Covering(files[last.index + 1], p)) = 2
          /\ Covering(files[last.index + 1], q) = {}

-----------------------------------------------------------------------------
(* ModuleFileEntry::read_resources: src/src/module/file.rs                  *)

MaxResources == 3       \* longest resource table followed

ResourceFiles == 2      \* file entries of the module the table points into

\* for i in self.resource_index..self.resource_count: the values i takes.
ResourceRange(resource_index, resource_count) ==
    [n \in 1..(IF resource_count > resource_index
               THEN resource_count - resource_index ELSE 0) |-> resource_index + n - 1]

\* read_resources of an entry with the span (resource_index,
\* resource_count) over the module's resource table: the indices into
\* module.files of the entries it returns.  An index past the end of
\* module.resources or of module.files panics.
read_resources(resource_index, resource_count, resources, file_count) ==
    IF \E n \in 1..Len(ResourceRange(resource_index, resource_count)) :
           \/ ResourceRange(resource_index, resource_count)[n] >= Len(resources)
           \/ resources[ResourceRange(resource_index, resource_count)[n] + 1] >= file_count
    THEN [res |-> "Panic", out |-> << >>]
    ELSE [res |-> "Ok",
          out |-> [n \in 1..Len(ResourceRange(resource_index, resource_count)) |->
                      resources[ResourceRange(resource_index, resource_count)[n] + 1]]]

\* Every resource table up to MaxResources entries, every span that starts
\* and ends within MaxResources.
InitResources ==
    /\ files = << >>
    /\ blocks = << >>
    /\ module = ModuleProfile(0, FALSE)
    /\ reader_pos = [module |-> 0, hd1 |-> 0]
    /\ last = NoCall
    /\ target = DefaultTarget
    /\ hdr = NoHeaderRun
    /\ rs = NoResolverRun
    /\ \E n \in 0..MaxResources :
       \E resources \in [1..n -> 0..(ResourceFiles - 1)] :
       \E resource_index \in 0..MaxResources :
       \E resource_count \in 0..MaxResources :
           run = [fn |-> "read_resources", res |-> "none", resources |-> resources,
                  resource_index |-> resource_index, resource_count |-> resource_count,
                  out |-> << >>]

\* entry.read_resources(module)
ReadResources ==
    /\ run.fn = "read_resources"
    /\ run.res = "none"
    /\ run' = [run EXCEPT
                 !.res = read_resources(run.resource_index, run.resource_count,
                                        run.resources, ResourceFiles).res,
                 !.out = read_resources(run.resource_index, run.resource_count,
                                        run.resources, ResourceFiles).out]
    /\ UNCHANGED <<files, blocks, module, reader_pos, last, target, hdr, rs>>

NextResources == ReadResources

SpecResources == InitResources /\ [][NextResources]_vars

\* C27: read_resources returns exactly resource_count entries, the k-th of
\* them the file that resources[resource_index + k] points to, so the whole
\* span [resource_index, resource_index + resource_count) of the table, also
\* when resource_index > 0.
C27_WholeSpan ==
    (/\ run.fn = "read_resources"
     /\ run.res # "none"
     /\ run.resource_index + run.resource_count <= Len(run.resources))
    => /\ run.res = "Ok"
       /\ Len(run.out) = run.resource_count
       /\ \A k \in 0..(run.resource_count - 1) :
             run.out[k + 1] = run.resources[run.resource_index + k + 1]

\* read_resources has been called on an entry whose span lies inside the
\* table and starts after its first entry.
C27_Witness ==
    /\ run.fn = "read_resources"
    /\ run.res # "none"
    /\ run.resource_index > 0
    /\ run.resource_count > 0
    /\ run.resource_index + run.resource_count <= Len(run.resources)

\* What is returned is the part of the table from resource_index up to, not
\* including, position resource_count.
SpanToCount ==
    (/\ run.fn = "read_resources"
     /\ run.res # "none"
     /\ run.resource_count <= Len(run.resources))
    => /\ run.res = "Ok"
       /\ run.out = Slice(run.resources, run.resource_index,
                          IF run.resource_count > run.resource_index
                          THEN run.resource_count ELSE run.resource_index)

-----------------------------------------------------------------------------
(* The load state of an entry                                               *)

\* C28: in every state, also after a read_tag that failed, every entry has
\* a data stream exactly when it is loaded, has tag info only when it is
\* loaded and has a tag_id, and has tag info whenever it is loaded and has
\* a tag_id.
C28_LoadState ==
    \A i \in 1..Len(files) :
        /\ files[i].data_stream.present <=> files[i].is_loaded
        /\ files[i].tag_info.present => (files[i].is_loaded /\ files[i].tag_id # -1)
        /\ (files[i].is_loaded /\ files[i].tag_id # -1) => files[i].tag_info.present

\* A read_tag has failed in TagFile::read, after the buffer was assembled.
C28_Witness ==
    /\ last.op \in {"read_tag", "read_tag_from_id"}
    /\ last.stage = "parse"
    /\ last.res # "Ok"
    /\ ~files[last.index + 1].is_loaded

\* The same with the stream only implied by the loaded flag.
LoadedHasStream ==
    \A i \in 1..Len(files) :
        /\ files[i].is_loaded => files[i].data_stream.present
        /\ files[i].tag_info.present => (files[i].is_loaded /\ files[i].tag_id # -1)
        /\ (files[i].is_loaded /\ files[i].tag_id # -1) => files[i].tag_info.present

-----------------------------------------------------------------------------
(* The order of loads                                                      *)

\* read_tag on the entry with the file handle as it is after opening, no
\* other entry having been read.
LoadedAlone(entry, kinds) ==
    IF "USE_HD1" \in entry.data_offset_flags
    THEN read_tag(entry, "hd1",
                  Hd1Offset(module.version, file_data_offset, module.hd1_delta),
                  blocks, 0, kinds)
    ELSE read_tag(entry, "module", file_data_offset, blocks, 0, kinds)

\* The call that gave res and left the entry as after is the call o.
SameLoad(o, res, after) == o.res = res /\ o.entry = after

\* C29: loads do not depend on their order.  Whatever entries were loaded
\* before and wherever those reads left the file handle, a read_tag(i) that
\* goes past the is_loaded guard gives the result and the buffer it gives
\* on a newly opened module, since each load rewinds and seeks to
\* file_data_offset + data_offset.
C29_OrderIndependent ==
    [][ (last'.op = "read_tag" /\ last'.stage \in {"assemble", "parse", "done"}) =>
          \E kinds \in KindChoices(files[last'.index + 1]) :
              SameLoad(LoadedAlone(files[last'.index + 1], kinds),
                       last'.res, files'[last'.index + 1]) ]_vars

\* An entry has been assembled after the other entry of the module, whose
\* read left the file handle somewhere else than it was after opening.
C29_Witness ==
    /\ last.op = "read_tag"
    /\ last.stage \in {"parse", "done"}
    /\ last.reader = "module"
    /\ \E j \in 1..Len(files) :
          /\ j # last.index + 1
          /\ files[j].is_loaded
          /\ ~("USE_HD1" \in files[j].data_offset_flags)
          /\ files[j].data_offset # files[last.index + 1].data_offset

-----------------------------------------------------------------------------
(* read_metadata called again                                               *)

\* C30: resolution can be repeated.  A read_metadata on a loaded entry that
\* follows a successful read_metadata on it, each with a default structure
\* of the same shape, succeeds as well and fills its structure with the
\* same field values and the same element list.
C30_Repeatable ==
    [][ (/\ last.op = "read_metadata"
         /\ last.res = "Ok"
         /\ last'.op = "read_metadata"
         /\ last'.index = last.index)
        => /\ last'.res = "Ok"
           /\ target' = target ]_vars

\* read_metadata has resolved a structure with elements and left the data
\* stream of the entry at its end.
C30_Witness ==
    /\ last.op = "read_metadata"
    /\ last.res = "Ok"
    /\ target.elements # << >>
    /\ files[last.index + 1].is_loaded
    /\ files[last.index + 1].data_stream.pos >= Len(files[last.index + 1].data_stream.buf)

\* A read_metadata that follows a successful one does not succeed and
\* resolves nothing.
SecondCallFails ==
    [][ (/\ last.op = "read_metadata"
         /\ last.res = "Ok"
         /\ last'.op = "read_metadata"
         /\ last'.index = last.index)
        => /\ last'.res \in {"ReadError", "Panic"}
           /\ target'.elements = << >> ]_vars

=============================================================================
